---- MODULE Spec2Model ----
(***************************************************************************)
(* Model of the quota-aware sync pipeline of yt_sub_playlist:              *)
(*   core/youtube_client.py   (YouTubeClient)                              *)
(*   core/playlist_manager.py (PlaylistManager)                            *)
(*   config/env_loader.py     (VideoCache)                                 *)
(*   core/video_filtering.py  (VideoFilter)                                *)
(* Every remote call is one step; `issued` names the remote method the     *)
(* latest step executed ("none" when the step made no remote call).        *)
(***************************************************************************)
EXTENDS Integers, Sequences, FiniteSets, TLC

VARIABLES
    pc,                 \* position of the (single-threaded) run
    quota_exceeded,     \* YouTubeClient.quota_exceeded
    issued,             \* remote method executed by the latest step
    \* ---- YouTubeClient._get_videos_details ----
    video_ids,          \* argument of _get_videos_details
    unique_video_ids,   \* list(dict.fromkeys(video_ids))
    i,                  \* loop variable of range(0, len(unique), batch_size)
    attempt,            \* loop variable of _get_videos_details_batch
    details,            \* keys of the details dict collected so far
    failed_batches,     \* counter of _get_videos_details
    quota_used,         \* summary figures computed before returning
    quota_saved,
    batch_log,          \* history: per batch, the outcome of every videos.list call
    caller,             \* who called _get_videos_details ("none": called directly)
    \* ---- PlaylistManager.add_videos_to_playlist and what it calls ----
    dry_run,            \* argument dry_run
    filtered_videos,    \* argument videos (the candidates), as video IDs
    snapshot_file,      \* existing_playlist_items_<playlist_id>.json
    page_count,         \* fetch_existing_playlist_items: pages requested
    fetched_ids,        \* fetch_existing_playlist_items: local video_ids
    fetch_log,          \* history: how fetch_existing_playlist_items returned
    existing_video_ids, \* value returned by fetch_existing_playlist_items
    new_video_ids,      \* YouTubeClient.add_videos_to_playlist locals
    skipped_duplicates,
    results,            \* dict video_id -> bool
    ins_idx,            \* position of the insert loop in new_video_ids
    insert_log,         \* history: <<video_id, outcome>> of every insert call
    mark_idx,           \* position of the manager's result loop in videos
    detailed_results,   \* list returned by the manager
    cache,              \* VideoCache._cache: video_id -> 'added_at' string
    cache_file,         \* processed_videos.json: its shape and its entries
    \* ---- main and YouTubeClient.get_recent_uploads_from_subscriptions ----
    playlist_id_given,  \* config["playlist_id"] is set
    subscriptions,      \* _get_all_subscriptions: channels collected
    sub_pages,          \* history: subscriptions.list pages requested
    ch_idx,             \* position of the channel loop in subscriptions
    playlist_items,     \* video IDs of the current channel's uploads page
    videos,             \* videos collected from the channels so far
    \* ---- VideoCache ----
    now,                \* datetime.utcnow()
    instance,           \* history: VideoCache instances constructed so far
    last_mark,          \* history: the latest mark_processed call
    \* ---- VideoFilter ----
    config,             \* VideoFilter.config
    channel_whitelist,  \* filter_videos: argument channel_whitelist (legacy)
    filter_input,       \* filter_videos: argument videos, as video records
    filter_idx,         \* position of the loop of filter_videos
    filtered,           \* filter_videos: local filtered
    stats,              \* VideoFilter.stats
    filter_now,         \* datetime.utcnow() of the date filter, in seconds
    \* ---- configuration ----
    raw_config,         \* the settings given in .env and config.json
    \* ---- the user's account ----
    title_exists,       \* one of the user's playlists has the configured title
    resolved_id,        \* what YouTubeClient.get_or_create_playlist returned
    exit_code,          \* the status main passes to sys.exit
    \* ---- _get_all_subscriptions ----
    next_page_token,    \* the nextPageToken of the last subscriptions page
    uploads_playlist_id, \* what _get_uploads_playlist_id returned last
    \* ---- QuotaTracker ----
    api_calls,          \* self.api_calls: the call records since the reset
    \* ---- a second VideoCache open on the same file ----
    other_cache,        \* its _cache
    last_write,         \* history: the latest _save_cache of either instance
    \* ---- successive runs on one cache file ----
    saved_marks,        \* history: per video, its latest mark that reached the file
    filter_calls        \* history: calls of filter_videos on the VideoFilter

detVars == <<video_ids, unique_video_ids, i, attempt, details, failed_batches,
             quota_used, quota_saved, batch_log, caller>>
syncVars == <<dry_run, filtered_videos, snapshot_file, page_count, fetched_ids,
              fetch_log, existing_video_ids, new_video_ids, skipped_duplicates, results,
              ins_idx, insert_log, mark_idx, detailed_results, cache, cache_file>>
runVars == <<playlist_id_given, subscriptions, sub_pages, ch_idx, playlist_items,
             videos>>
vcVars == <<now, instance, last_mark>>
fltVars == <<config, channel_whitelist, filter_input, filter_idx, filtered,
             stats, filter_now>>
cfgVars == <<raw_config>>
acctVars == <<title_exists>>
resVars == <<resolved_id, exit_code>>
subVars == <<next_page_token, uploads_playlist_id>>
qtVars == <<api_calls>>
shVars == <<other_cache, last_write>>
histVars == <<saved_marks, filter_calls>>
auxVars == <<cfgVars, acctVars, resVars, subVars, qtVars, shVars, histVars>>
otherVars == <<vcVars, fltVars, auxVars>>
nonDetVars == <<syncVars, runVars, otherVars>>
nonSyncVars == <<detVars, runVars, otherVars>>
vars == <<pc, quota_exceeded, issued, detVars, syncVars, runVars, otherVars>>

(* ---------------------------- bounds ----------------------------------- *)
MaxIds == 101          \* distinct video IDs handed to _get_videos_details
MaxDups == 1           \* repeated IDs put before / after the distinct ones
MaxVideos == 3         \* candidates handed to add_videos_to_playlist
MaxPages == 2          \* pages a pagination may take
MaxChannels == 2       \* subscribed channels
MaxPerChannel == 2     \* videos on a channel's uploads page
MaxRunVideos == 2      \* videos a whole run collects from all channels
MaxCacheIds == 2       \* video IDs the processed-video cache may hold
MaxMicros == 1         \* microsecond values an instant may carry
MaxCalls == 3          \* call records of a QuotaTracker between two resets
MaxCount == 2          \* the count of one record_api_call
MaxInstances == 2      \* VideoCache instances constructed on one file
MaxFilterLen == 2      \* videos handed to filter_videos
MaxOrderLen == 1       \* the same, when every filter is configured
MaxFilterCalls == 2    \* calls of filter_videos on one VideoFilter

(* ------------------------ program constants ---------------------------- *)
batch_size == 50
max_retries == 1

(* ----------------------------- helpers --------------------------------- *)
Range(s) == {s[k] : k \in DOMAIN s}
Ids(n) == [k \in 1..n |-> k]
Copies(n, x) == [k \in 1..n |-> x]
Min(a, b) == IF a <= b THEN a ELSE b
Front(s) == SubSeq(s, 1, Len(s) - 1)
Last(s) == s[Len(s)]
RECURSIVE SumLens(_)
SumLens(ss) == IF ss = <<>> THEN 0 ELSE Len(Last(ss)) + SumLens(Front(ss))
CeilDiv(a, b) == (a + b - 1) \div b

(* list(dict.fromkeys(video_ids)): drops repeats, keeps first-seen order *)
DedupNone(s) == s
Dedup(s) ==
    LET at == [k \in DOMAIN s |-> <<k, s[k]>>]
        first == SelectSeq(at, LAMBDA p : \A j \in 1..(p[1] - 1) : s[j] # p[2])
    IN  [k \in DOMAIN first |-> first[k][2]]

(* total_batches = (len(unique) + batch_size - 1) // batch_size *)
TotalBatches(u) == (Len(u) + batch_size - 1) \div batch_size

(* unique_video_ids[i:i + batch_size] *)
BatchAt(u, idx) == SubSeq(u, idx + 1, Min(idx + batch_size, Len(u)))

(* batch_num = (i // batch_size) + 1 *)
BatchNum(idx) == (idx \div batch_size) + 1

(* The "items" a successful videos.list response may carry for a batch:
   every video, every video but one (deleted/private), or none at all. *)
Responses(batch) ==
    {Range(batch), Range(batch) \ {batch[1]}, {}}

(* `if self.quota_exceeded: break` at the head of the batch loop *)
StopBatchesNever == FALSE
StopBatches == quota_exceeded

(* `attempt < max_retries`: a failed call is followed by another attempt *)
MayRetryAlways(a) == a < max_retries + 1
MayRetry(a) == a < max_retries

(* ----------------- YouTubeClient._get_videos_details ------------------- *)
(* the locals of _get_videos_details outside a call *)
DetIdle ==
    /\ video_ids = <<>>
    /\ unique_video_ids = <<>>
    /\ i = 0
    /\ attempt = 0
    /\ details = {}
    /\ failed_batches = 0
    /\ quota_used = 0
    /\ quota_saved = 0
    /\ batch_log = <<>>
    /\ caller = "none"

Log(entry) ==
    [batch_log EXCEPT ![BatchNum(i)] = Append(@, entry)]

(* what _get_videos_details does with the value of _get_videos_details_batch *)
BatchReturn(batch_details) ==
    /\ details' = details \cup batch_details
    /\ failed_batches' = IF batch_details # {} THEN failed_batches
                         ELSE failed_batches + 1
    /\ i' = i + batch_size
    /\ pc' = "det_loop"

ReturnDetails ==
    pc' = IF caller = "none" THEN "det_done" ELSE "combine"

GetVideosDetails ==
    /\ pc = "det_enter"
    /\ issued' = "none"
    /\ IF video_ids = <<>>
       THEN /\ details' = {}
            /\ ReturnDetails
            /\ UNCHANGED <<unique_video_ids, failed_batches, batch_log, i>>
       ELSE /\ unique_video_ids' = Dedup(video_ids)
            /\ details' = {}
            /\ failed_batches' = 0
            /\ i' = 0
            /\ batch_log' = [b \in 1..TotalBatches(Dedup(video_ids)) |-> <<>>]
            /\ pc' = "det_loop"
    /\ UNCHANGED <<quota_exceeded, video_ids, attempt, quota_used, quota_saved,
                   caller, nonDetVars>>

DetLoop ==
    /\ pc = "det_loop"
    /\ issued' = "none"
    /\ IF i >= Len(unique_video_ids) \/ StopBatches
       THEN /\ quota_used' = TotalBatches(unique_video_ids) - failed_batches
            /\ quota_saved' = Len(unique_video_ids)
                              - (TotalBatches(unique_video_ids) - failed_batches)
            /\ ReturnDetails
            /\ UNCHANGED attempt
       ELSE /\ attempt' = 0
            /\ pc' = "det_batch"
            /\ UNCHANGED <<quota_used, quota_saved>>
    /\ UNCHANGED <<quota_exceeded, video_ids, unique_video_ids, i, details,
                   failed_batches, batch_log, caller, nonDetVars>>

(* videos.list answered 200 with `found` as its items *)
VideosListOk ==
    /\ pc = "det_batch"
    /\ issued' = "videos.list"
    /\ \E found \in Responses(BatchAt(unique_video_ids, i)) :
          /\ batch_log' = Log([outcome |-> "ok", items |-> found])
          /\ BatchReturn(found)
    /\ UNCHANGED <<quota_exceeded, video_ids, unique_video_ids, attempt,
                   quota_used, quota_saved, caller, nonDetVars>>

(* videos.list answered 403 quotaExceeded *)
VideosListQuota ==
    /\ pc = "det_batch"
    /\ issued' = "videos.list"
    /\ quota_exceeded' = TRUE
    /\ batch_log' = Log([outcome |-> "quota", items |-> {}])
    /\ BatchReturn({})
    /\ UNCHANGED <<video_ids, unique_video_ids, attempt, quota_used, quota_saved,
                   caller, nonDetVars>>

(* videos.list failed with any other HttpError or exception *)
VideosListTransient ==
    /\ pc = "det_batch"
    /\ issued' = "videos.list"
    /\ batch_log' = Log([outcome |-> "transient", items |-> {}])
    /\ IF MayRetry(attempt)
       THEN /\ attempt' = attempt + 1
            /\ UNCHANGED <<pc, details, failed_batches, i>>
       ELSE /\ BatchReturn({})
            /\ UNCHANGED attempt
    /\ UNCHANGED <<quota_exceeded, video_ids, unique_video_ids, quota_used,
                   quota_saved, caller, nonDetVars>>

DetailsStep ==
    \/ GetVideosDetails
    \/ DetLoop
    \/ VideosListOk
    \/ VideosListQuota
    \/ VideosListTransient

(* ------------- YouTubeClient.fetch_existing_playlist_items ------------- *)
cache_ttl_hours == 12
page_limit == 100

(* The snapshot file: `age` is the time since the file was last modified
   (time.time() - os.path.getmtime), `fetched_age` the time since the
   'fetched_at' instant the file records, both in whole hours; `readable` is
   false when open / json.load fails with OSError or JSONDecodeError. *)
NoSnapshot ==
    [exists |-> FALSE, readable |-> FALSE, video_ids |-> {}, age |-> 0,
     fetched_age |-> 0]

(* `os.path.exists(cache_file)` and `cache_age < cache_ttl_hours * 3600` *)
SnapshotFreshNever(f) == FALSE
SnapshotFresh(f) == f.exists /\ f.age < cache_ttl_hours

(* the read of a fresh file succeeds; otherwise "Continue to fresh fetch" *)
SnapshotReadable(f) == f.readable

(* the file written after a complete refetch *)
WrittenSnapshot(ids) ==
    [exists |-> TRUE, readable |-> TRUE, video_ids |-> ids, age |-> 0,
     fetched_age |-> 0]

(* the snapshot file after a page request failed: the write is inside the
   try block, after the loop, and is never reached *)
SnapshotAfterFailureWritten(f, ids) == WrittenSnapshot(ids)
SnapshotAfterFailure(f, ids) == f

(* the value returned when a page request fails: `return set()` *)
FailureResultPartial(ids) == ids
FailureResult(ids) == {}

(* how the latest call of fetch_existing_playlist_items returned: from the
   file ("cached"), after a complete refetch ("fetched") or after a failed
   page request ("failed"); pages = page requests made, had_ids = IDs had
   been collected from earlier pages when it returned *)
NoFetch == [how |-> "none", pages |-> 0, had_ids |-> FALSE]
FetchReturned(how) ==
    [how |-> how, pages |-> IF how = "cached" THEN 0 ELSE page_count + 1,
     had_ids |-> how = "failed" /\ fetched_ids # {}]

(* YouTubeClient.add_videos_to_playlist, from the return of
   fetch_existing_playlist_items (whose locals end there) to the head of the
   insert loop *)
IsNewAlways(v, existing) == TRUE
IsNew(v, existing) == v \notin existing

Partition(existing) ==
    LET new == SelectSeq(filtered_videos, LAMBDA v : IsNew(v, existing))
        dup == SelectSeq(filtered_videos, LAMBDA v : ~IsNew(v, existing))
    IN  /\ existing_video_ids' = existing
        /\ page_count' = 0
        /\ fetched_ids' = {}
        /\ new_video_ids' = new
        /\ skipped_duplicates' = dup
        /\ ins_idx' = 1
        /\ mark_idx' = 1
        /\ IF new = <<>>
           THEN /\ results' = [v \in Range(filtered_videos) |-> TRUE]
                /\ pc' = "mark"
           ELSE /\ results' = [v \in Range(dup) |-> TRUE]
                /\ pc' = "insert_loop"

(* `if dry_run:` *)
DryRunIgnored == FALSE
DryRun == dry_run

(* PlaylistManager.add_videos_to_playlist up to the call of the client *)
ManagerAddVideos ==
    /\ pc = "add_videos"
    /\ issued' = "none"
    /\ IF filtered_videos = <<>>
       THEN /\ detailed_results' = <<>>
            /\ pc' = "done"
       ELSE IF DryRun
       THEN /\ detailed_results' =
                 [k \in 1..Len(filtered_videos) |->
                     [video_id |-> filtered_videos[k], added |-> TRUE]]
            /\ pc' = "done"
       ELSE /\ pc' = "fetch_existing"
            /\ UNCHANGED detailed_results
    /\ UNCHANGED <<quota_exceeded, dry_run, filtered_videos, snapshot_file,
                   page_count, fetched_ids, fetch_log, existing_video_ids,
                   new_video_ids, skipped_duplicates, results, ins_idx,
                   insert_log, mark_idx, cache, cache_file, nonSyncVars>>

(* fetch_existing_playlist_items: the disk-cache check *)
FetchExisting ==
    /\ pc = "fetch_existing"
    /\ issued' = "none"
    /\ IF SnapshotFresh(snapshot_file) /\ SnapshotReadable(snapshot_file)
       THEN /\ fetch_log' = FetchReturned("cached")
            /\ Partition(snapshot_file.video_ids)
       ELSE /\ page_count' = 0
            /\ fetched_ids' = {}
            /\ pc' = "fetch_page"
            /\ UNCHANGED <<fetch_log, existing_video_ids, new_video_ids,
                           skipped_duplicates, results, ins_idx, mark_idx>>
    /\ UNCHANGED <<quota_exceeded, dry_run, filtered_videos, snapshot_file,
                   insert_log, detailed_results, cache, cache_file, nonSyncVars>>

(* playlistItems.list answered 200: a page of video IDs, with a
   nextPageToken or not as the remote chooses from more *)
PlaylistPage(more) ==
    /\ pc = "fetch_page"
    /\ issued' = "playlistItems.list"
    /\ \E page \in SUBSET Range(filtered_videos) :
       \E has_next \in more :
          /\ IF has_next /\ ~(page_count + 1 > page_limit)
             THEN /\ page_count' = page_count + 1
                  /\ fetched_ids' = fetched_ids \cup page
                  /\ UNCHANGED <<pc, snapshot_file, fetch_log,
                                 existing_video_ids, new_video_ids,
                                 skipped_duplicates, results, ins_idx, mark_idx>>
             ELSE /\ snapshot_file' = WrittenSnapshot(fetched_ids \cup page)
                  /\ fetch_log' = FetchReturned("fetched")
                  /\ Partition(fetched_ids \cup page)
    /\ UNCHANGED <<quota_exceeded, dry_run, filtered_videos, insert_log,
                   detailed_results, cache, cache_file, nonSyncVars>>

(* a playlist of at most MaxPages pages *)
PlaylistPageOk ==
    PlaylistPage({b \in BOOLEAN : b => page_count + 1 < MaxPages})

(* a remote of any behaviour: every page with or without a token *)
PlaylistPageAny ==
    PlaylistPage(BOOLEAN)

(* playlistItems.list failed: 403 quotaExceeded sets the flag, and every
   failure makes fetch_existing_playlist_items return set() *)
PlaylistPageFail ==
    /\ pc = "fetch_page"
    /\ issued' = "playlistItems.list"
    /\ \E quota \in BOOLEAN :
          quota_exceeded' = (quota_exceeded \/ quota)
    /\ fetch_log' = FetchReturned("failed")
    /\ snapshot_file' = SnapshotAfterFailure(snapshot_file, fetched_ids)
    /\ Partition(FailureResult(fetched_ids))
    /\ UNCHANGED <<dry_run, filtered_videos,
                   insert_log, detailed_results, cache, cache_file, nonSyncVars>>

(* ---------------- YouTubeClient.add_videos_to_playlist ----------------- *)
(* `if self.quota_exceeded: break` at the head of the insert loop *)
StopInsertsNever == FALSE
StopInserts == quota_exceeded

InsertLoop ==
    /\ pc = "insert_loop"
    /\ issued' = "none"
    /\ pc' = IF ins_idx > Len(new_video_ids) \/ StopInserts
             THEN "mark" ELSE "insert_call"
    /\ UNCHANGED <<quota_exceeded, syncVars, nonSyncVars>>

(* YouTubeClient.add_video_to_playlist: the value returned for each answer
   of playlistItems.insert *)
InsertOutcomes == {"ok", "conflict", "quota", "error"}
InsertSuccessNo409(outcome) == outcome = "ok"
InsertSuccess(outcome) == outcome \in {"ok", "conflict"}

InsertSetsQuotaOnFailure(outcome) == outcome \in {"quota", "error"}
InsertSetsQuota(outcome) == outcome = "quota"

InsertCall ==
    /\ pc = "insert_call"
    /\ issued' = "playlistItems.insert"
    /\ \E outcome \in InsertOutcomes :
          /\ quota_exceeded' = (quota_exceeded \/ InsertSetsQuota(outcome))
          /\ results' = [v \in DOMAIN results \cup {new_video_ids[ins_idx]} |->
                            IF v = new_video_ids[ins_idx]
                            THEN InsertSuccess(outcome) ELSE results[v]]
          /\ insert_log' = Append(insert_log,
                                  <<new_video_ids[ins_idx], outcome>>)
    /\ ins_idx' = ins_idx + 1
    /\ pc' = "insert_loop"
    /\ UNCHANGED <<dry_run, filtered_videos, snapshot_file, page_count,
                   fetched_ids, fetch_log, existing_video_ids, new_video_ids,
                   skipped_duplicates, mark_idx, detailed_results, cache,
                   cache_file, nonSyncVars>>

(* ------------------------------ VideoCache ------------------------------ *)
ttl_days == 30

(* An instant is a whole number of days and a fraction of a second in
   microseconds. datetime.isoformat() writes the fraction only when it is
   not zero; the string is modelled by the sequence of its numeric fields,
   and strings are compared as Python compares them: field by field, a
   proper prefix being the smaller. *)
Instant(d, u) == [day |-> d, us |-> u]
Iso(t) == IF t.us = 0 THEN <<t.day>> ELSE <<t.day, t.us>>
StrLess(a, b) ==
    \E k \in 1..(Min(Len(a), Len(b)) + 1) :
        /\ \A j \in 1..(k - 1) : a[j] = b[j]
        /\ IF k <= Len(a) /\ k <= Len(b) THEN a[k] < b[k]
           ELSE k > Len(a) /\ k <= Len(b)

(* cutoff = (datetime.utcnow() - timedelta(days=self.ttl_days)).isoformat() *)
Cutoff == Iso(Instant(now.day - ttl_days, now.us))

(* `data.get('added_at', '') > cutoff`; a missing added_at is the empty
   string *)
KeepAll(added_at) == TRUE
Keep(added_at) == StrLess(Cutoff, added_at)

(* processed_videos.json. shape: "absent" (no file), "map" (an object whose
   values are objects; `entries` gives the added_at string of each key),
   "unparsable" (json.load raises JSONDecodeError: empty, truncated),
   "not_a_map" (a list, string, number or null), "entry_not_a_map" (an
   object with a value that is not an object), "added_at_not_a_string" (an
   entry whose added_at is a number). *)
NoCacheFile == [shape |-> "absent", entries |-> <<>>]
MapFile(m) == [shape |-> "map", entries |-> m]
BrokenFile(shape) == [shape |-> shape, entries |-> <<>>]

(* _save_cache: the file is opened for writing and the map dumped; every
   exception is logged and swallowed. "saved": the file holds the map;
   "unchanged": open failed; "truncated": the write failed after the file
   was truncated. *)
SaveOutcomes == {"saved", "unchanged", "truncated"}
SaveCacheNothing(m, outcome) == cache_file
SaveCache(m, outcome) ==
    CASE outcome = "saved" -> MapFile(m)
      [] outcome = "unchanged" -> cache_file
      [] outcome = "truncated" -> BrokenFile("unparsable")

(* is_processed *)
IsProcessedNever(v) == FALSE
IsProcessed(v) == v \in DOMAIN cache

(* mark_processed: the entry is set in memory and the whole map is written
   to the file *)
MarkedIn(m, v) ==
    [x \in DOMAIN m \cup {v} |-> IF x = v THEN Iso(now) ELSE m[x]]
Marked(v) == MarkedIn(cache, v)

MarkProcessed(v, outcome) ==
    /\ cache' = Marked(v)
    /\ cache_file' = SaveCache(Marked(v), outcome)

(* shapes on which _load_cache raises an exception it does not catch
   (AttributeError from .items() or .get()) *)
LoadRaises(shape) == shape \in {"not_a_map", "entry_not_a_map"}

NoMark == [id |-> 0, saved |-> FALSE, at |-> Instant(0, 0), instance |-> 0]

(* the entries of a loaded file that _load_cache keeps *)
KeptEntries(file) ==
    [v \in {x \in DOMAIN file.entries : Keep(file.entries[x])}
        |-> file.entries[v]]

(* no second instance, nothing written *)
NoWrite == [by |-> 0, id |-> 0, outcome |-> "none", replaced |-> NoCacheFile]
SharedIdle ==
    /\ other_cache = <<>>
    /\ last_write = NoWrite
    /\ saved_marks = <<>>
    /\ filter_calls = 0

(* the history of the marks after a write of the file: a write that failed
   after truncating the file loses every entry the file held; a mark of v
   that reached the file is recorded with its time and its run *)
AfterWrite(outcome) ==
    IF outcome = "truncated"
    THEN [x \in DOMAIN saved_marks |-> [saved_marks[x] EXCEPT !.lost = TRUE]]
    ELSE saved_marks
AfterMark(v, outcome) ==
    IF outcome = "saved"
    THEN [x \in DOMAIN saved_marks \cup {v} |->
             IF x = v THEN [at |-> now, instance |-> instance, lost |-> FALSE]
             ELSE saved_marks[x]]
    ELSE AfterWrite(outcome)

(* VideoCache.__init__ and _load_cache *)
LoadCache ==
    /\ pc = "vc_new"
    /\ issued' = "none"
    /\ IF cache_file.shape = "map"
       THEN LET kept == KeptEntries(cache_file)
            IN  /\ cache' = kept
                /\ pc' = "vc_ready"
                /\ IF Cardinality(DOMAIN kept)
                          # Cardinality(DOMAIN cache_file.entries)
                   THEN \E outcome \in SaveOutcomes :
                           /\ cache_file' = SaveCache(kept, outcome)
                           /\ last_mark' =
                                  [last_mark EXCEPT !.saved =
                                       @ /\ outcome # "truncated"]
                           /\ saved_marks' = AfterWrite(outcome)
                   ELSE UNCHANGED <<cache_file, last_mark, saved_marks>>
       ELSE /\ cache' = <<>>
            /\ pc' = IF LoadRaises(cache_file.shape)
                     THEN "vc_raised" ELSE "vc_ready"
            /\ UNCHANGED <<cache_file, last_mark, saved_marks>>
    /\ UNCHANGED <<quota_exceeded, now, instance, detVars, runVars, dry_run,
                   filtered_videos, snapshot_file, page_count, fetched_ids,
                   fetch_log, existing_video_ids, new_video_ids,
                   skipped_duplicates, results, ins_idx, insert_log, mark_idx,
                   detailed_results, fltVars, cfgVars, acctVars, resVars,
                   subVars, qtVars, shVars, filter_calls>>

(* a call of mark_processed on the loaded cache *)
MarkProcessedCall ==
    /\ pc = "vc_ready"
    /\ issued' = "none"
    /\ \E v \in 1..MaxCacheIds : \E outcome \in SaveOutcomes :
          /\ MarkProcessed(v, outcome)
          /\ last_mark' = [id |-> v, saved |-> outcome = "saved", at |-> now,
                           instance |-> instance]
    /\ UNCHANGED <<pc, quota_exceeded, now, instance, detVars, runVars,
                   dry_run, filtered_videos, snapshot_file, page_count,
                   fetched_ids, fetch_log, existing_video_ids, new_video_ids,
                   skipped_duplicates, results, ins_idx, insert_log, mark_idx,
                   detailed_results, fltVars, auxVars>>

(* the process ends and a later one constructs a new VideoCache on the same
   file, after some time has passed *)
Elapsed == {0, ttl_days - 1, ttl_days + 1}
NewInstance ==
    /\ pc = "vc_ready"
    /\ instance < MaxInstances
    /\ issued' = "none"
    /\ pc' = "vc_new"
    /\ cache' = <<>>
    /\ instance' = instance + 1
    /\ \E d \in Elapsed : \E u \in 0..MaxMicros :
          /\ d = 0 => u >= now.us
          /\ now' = Instant(now.day + d, u)
    /\ UNCHANGED <<quota_exceeded, last_mark, detVars, runVars, dry_run,
                   filtered_videos, snapshot_file, page_count, fetched_ids,
                   fetch_log, existing_video_ids, new_video_ids,
                   skipped_duplicates, results, ins_idx, insert_log, mark_idx,
                   detailed_results, cache_file, fltVars,
                   auxVars>>

CacheStep ==
    \/ LoadCache
    \/ MarkProcessedCall
    \/ NewInstance

(* ---- two VideoCache instances open on one file: `cache` is the _cache of
   the first, `other_cache` the _cache of the second. Each step is one whole
   call of one instance; the calls of the two interleave freely. ---- *)
SharedFrame ==
    UNCHANGED <<pc, quota_exceeded, now, instance, last_mark, detVars, runVars,
                dry_run, filtered_videos, snapshot_file, page_count,
                fetched_ids, fetch_log, existing_video_ids, new_video_ids,
                skipped_duplicates, results, ins_idx, insert_log, mark_idx,
                detailed_results, fltVars, cfgVars, acctVars, resVars, subVars,
                qtVars, histVars>>

(* mark_processed of the instance `by` holding the map m: the value of its
   map and the write *)
SharedMark(by, m, v, outcome) ==
    /\ cache_file' = SaveCache(MarkedIn(m, v), outcome)
    /\ last_write' = [by |-> by, id |-> v, outcome |-> outcome,
                      replaced |-> cache_file]

MarkProcessedFirst ==
    /\ pc = "shared"
    /\ issued' = "none"
    /\ \E v \in 1..MaxCacheIds : \E outcome \in SaveOutcomes :
          /\ cache' = MarkedIn(cache, v)
          /\ SharedMark(1, cache, v, outcome)
    /\ UNCHANGED other_cache
    /\ SharedFrame

MarkProcessedSecond ==
    /\ pc = "shared"
    /\ issued' = "none"
    /\ \E v \in 1..MaxCacheIds : \E outcome \in SaveOutcomes :
          /\ other_cache' = MarkedIn(other_cache, v)
          /\ SharedMark(2, other_cache, v, outcome)
    /\ UNCHANGED cache
    /\ SharedFrame

(* __init__ and _load_cache of a new instance `by`: the map it holds, and
   the write when entries were dropped *)
SharedLoad(by, loaded) ==
    /\ ~LoadRaises(cache_file.shape)
    /\ IF cache_file.shape = "map"
       THEN /\ loaded = KeptEntries(cache_file)
            /\ IF Cardinality(DOMAIN loaded)
                      # Cardinality(DOMAIN cache_file.entries)
               THEN \E outcome \in SaveOutcomes :
                       /\ cache_file' = SaveCache(loaded, outcome)
                       /\ last_write' = [by |-> by, id |-> 0,
                                         outcome |-> outcome,
                                         replaced |-> cache_file]
               ELSE UNCHANGED <<cache_file, last_write>>
       ELSE /\ loaded = <<>>
            /\ UNCHANGED <<cache_file, last_write>>

(* the process holding the first instance is replaced by a new one *)
ReopenFirst ==
    /\ pc = "shared"
    /\ issued' = "none"
    /\ \E loaded \in {KeptEntries(cache_file), <<>>} :
          /\ SharedLoad(1, loaded)
          /\ cache' = loaded
    /\ UNCHANGED other_cache
    /\ SharedFrame

ReopenSecond ==
    /\ pc = "shared"
    /\ issued' = "none"
    /\ \E loaded \in {KeptEntries(cache_file), <<>>} :
          /\ SharedLoad(2, loaded)
          /\ other_cache' = loaded
    /\ UNCHANGED cache
    /\ SharedFrame

SharedStep ==
    \/ MarkProcessedFirst
    \/ MarkProcessedSecond
    \/ ReopenFirst
    \/ ReopenSecond

(* ------------------------------ VideoFilter ----------------------------- *)
(* Strings are sequences of characters. str.lower() on the alphabet the
   titles and keywords are written in. *)
LowerChar(ch) ==
    CASE ch = "F" -> "f"
      [] ch = "O" -> "o"
      [] OTHER -> ch
ToLower(str) == [k \in 1..Len(str) |-> LowerChar(str[k])]

(* `keyword in search_text`: keyword occurs in search_text at some offset *)
EqualTo(keyword, search_text) == keyword = search_text
In(keyword, search_text) ==
    \E off \in 0..(Len(search_text) - Len(keyword)) :
        \A j \in 1..Len(keyword) : search_text[off + j] = keyword[j]

(* max_duration_seconds: None and 0 are both false in `max_duration and` *)
NoMax == 0
(* date_filter_start / date_filter_end not given *)
NoDate == -1
SecondsPerHour == 3600
SecondsPerDay == 86400

(* cutoff.replace(hour=0, minute=0, second=0, microsecond=0) *)
StartOfDayKeep(t) == t
StartOfDay(t) == (t \div SecondsPerDay) * SecondsPerDay
(* strptime(end_str, "%Y-%m-%d").replace(hour=23, minute=59, second=59) *)
EndOfDay(d) == d * SecondsPerDay + (SecondsPerDay - 1)

(* _init_stats *)
StatNames ==
    {"total", "too_short", "too_long", "outside_date_range",
     "keyword_filtered_include", "keyword_filtered_exclude",
     "not_whitelisted", "not_in_allowlist", "in_blocklist",
     "already_processed", "live_content_skipped", "passed_filters"}
InitStats == [n \in StatNames |-> 0]

(* filter_videos: filter_mode and allowlist after the legacy whitelist has
   been taken over; an absent list is the empty set *)
FilterMode ==
    IF config.channel_filter_mode = "none" /\ channel_whitelist # {}
    THEN "allowlist" ELSE config.channel_filter_mode
Allowlist ==
    IF config.channel_filter_mode = "none" /\ channel_whitelist # {}
    THEN channel_whitelist ELSE config.channel_allowlist

(* _check_date_filter; times are seconds since the epoch, dates are days
   since the epoch. published_at.kind is "missing" for None or the empty
   string, "unparsable" when strptime / fromisoformat raises ValueError, and
   "ok" for a string that parses to the instant published_at.at. *)
CheckDateFilter(video) ==
    LET published_at == video.published_at
        mode == config.date_filter_mode
    IN  IF published_at.kind # "ok" THEN TRUE
        ELSE IF mode = "lookback"
        THEN published_at.at
                >= filter_now - config.lookback_hours * SecondsPerHour
        ELSE IF mode = "days"
        THEN LET cutoff == filter_now - config.date_filter_days * SecondsPerDay
             IN  published_at.at >= StartOfDay(cutoff)
        ELSE IF mode = "date_range"
        THEN IF config.date_filter_start = NoDate
                \/ config.date_filter_end = NoDate
             THEN TRUE
             ELSE /\ config.date_filter_start * SecondsPerDay
                        <= published_at.at
                  /\ published_at.at <= EndOfDay(config.date_filter_end)
        ELSE TRUE

(* _check_keyword_filter: "none" stands for None *)
SearchText(video) ==
    LET text == IF config.keyword_search_description
                   /\ video.description # <<>>
                THEN video.title \o <<" ">> \o video.description
                ELSE video.title
    IN  IF config.keyword_case_sensitive THEN text ELSE ToLower(text)

KeywordsToCheck(list) ==
    [k \in 1..Len(list) |->
        IF config.keyword_case_sensitive THEN list[k] ELSE ToLower(list[k])]

AnyIn(keywords, search_text) ==
    \E k \in 1..Len(keywords) : In(keywords[k], search_text)
AllIn(keywords, search_text) ==
    \A k \in 1..Len(keywords) : In(keywords[k], search_text)

CheckKeywordFilter(video) ==
    LET mode == config.keyword_filter_mode
        search_text == SearchText(video)
        include_list == config.keyword_include
        exclude_list == config.keyword_exclude
    IN  IF mode = "none" THEN "none"
        ELSE IF /\ mode \in {"include", "both"}
                /\ include_list # <<>>
                /\ IF config.keyword_match_type = "any"
                   THEN ~AnyIn(KeywordsToCheck(include_list), search_text)
                   ELSE ~AllIn(KeywordsToCheck(include_list), search_text)
        THEN "filtered_include"
        ELSE IF /\ mode \in {"exclude", "both"}
                /\ exclude_list # <<>>
                /\ AnyIn(KeywordsToCheck(exclude_list), search_text)
        THEN "filtered_exclude"
        ELSE "none"

(* _should_include_video: the counter of the rejection, "none" when the
   video is included *)
TooShortInclusive(duration) == duration <= config.min_duration_seconds
TooShort(duration) == duration < config.min_duration_seconds
TooLong(duration) ==
    /\ config.max_duration_seconds # NoMax
    /\ duration > config.max_duration_seconds

Rejection(video) ==
    IF IsProcessed(video.video_id) THEN "already_processed"
    ELSE IF TooShort(video.duration_seconds) THEN "too_short"
    ELSE IF TooLong(video.duration_seconds) THEN "too_long"
    ELSE IF /\ FilterMode = "allowlist" /\ Allowlist # {}
            /\ video.channel_id \notin Allowlist
    THEN "not_in_allowlist"
    ELSE IF /\ ~(FilterMode = "allowlist" /\ Allowlist # {})
            /\ FilterMode = "blocklist" /\ config.channel_blocklist # {}
            /\ video.channel_id \in config.channel_blocklist
    THEN "in_blocklist"
    ELSE IF ~CheckDateFilter(video) THEN "outside_date_range"
    ELSE IF CheckKeywordFilter(video) = "filtered_include"
    THEN "keyword_filtered_include"
    ELSE IF CheckKeywordFilter(video) = "filtered_exclude"
    THEN "keyword_filtered_exclude"
    ELSE IF config.skip_live_content /\ video.live_broadcast # "none"
    THEN "live_content_skipped"
    ELSE "none"

(* the rejections each check of _should_include_video would make of the
   video on its own *)
FailedReasons(video) ==
    {r \in {"already_processed"} : IsProcessed(video.video_id)}
    \cup {r \in {"too_short"} : TooShort(video.duration_seconds)}
    \cup {r \in {"too_long"} : TooLong(video.duration_seconds)}
    \cup {r \in {"not_in_allowlist"} :
             /\ FilterMode = "allowlist" /\ Allowlist # {}
             /\ video.channel_id \notin Allowlist}
    \cup {r \in {"in_blocklist"} :
             /\ FilterMode = "blocklist" /\ config.channel_blocklist # {}
             /\ video.channel_id \in config.channel_blocklist}
    \cup {r \in {"outside_date_range"} : ~CheckDateFilter(video)}
    \cup {r \in {"keyword_filtered_include"} :
             CheckKeywordFilter(video) = "filtered_include"}
    \cup {r \in {"keyword_filtered_exclude"} :
             CheckKeywordFilter(video) = "filtered_exclude"}
    \cup {r \in {"live_content_skipped"} :
             config.skip_live_content /\ video.live_broadcast # "none"}

(* the counters the handling of one video increments *)
CountedEveryFailure(video) ==
    IF FailedReasons(video) = {} THEN {"passed_filters"}
    ELSE FailedReasons(video)
Counted(video) ==
    LET reason == Rejection(video)
    IN  IF reason = "none" THEN {"passed_filters"}
        ELSE IF reason = "not_in_allowlist"
        THEN {"not_in_allowlist", "not_whitelisted"}
        ELSE {reason}

(* self.stats = self._init_stats(); self.stats["total"] = len(videos) *)
StatsAtEntryKept(n) == [stats EXCEPT !["total"] = n]
StatsAtEntry(n) == [InitStats EXCEPT !["total"] = n]

(* filter_videos up to the loop: the counters are reset *)
FilterEnter ==
    /\ pc = "filter_enter"
    /\ pc' = "filter_loop"
    /\ issued' = "none"
    /\ stats' = StatsAtEntry(Len(filter_input))
    /\ filtered' = <<>>
    /\ filter_idx' = 1
    /\ filter_calls' = filter_calls + 1
    /\ UNCHANGED <<quota_exceeded, detVars, syncVars, runVars, vcVars, config,
                   channel_whitelist, filter_input, filter_now, cfgVars,
                   acctVars, resVars, subVars, qtVars, shVars, saved_marks>>

(* one iteration of the loop of filter_videos *)
KeptAlways(video) == TRUE
Kept(video) == Rejection(video) = "none"

FilterLoop ==
    /\ pc = "filter_loop"
    /\ filter_idx <= Len(filter_input)
    /\ issued' = "none"
    /\ LET video == filter_input[filter_idx]
       IN  /\ stats' = [n \in StatNames |->
                           IF n \in Counted(video) THEN stats[n] + 1
                           ELSE stats[n]]
           /\ filtered' = IF Kept(video) THEN Append(filtered, video)
                          ELSE filtered
    /\ filter_idx' = filter_idx + 1
    /\ UNCHANGED <<pc, quota_exceeded, detVars, syncVars, runVars, vcVars,
                   config, channel_whitelist, filter_input, filter_now,
                   auxVars>>

(* filter_videos returns filtered *)
FilterReturn ==
    /\ pc = "filter_loop"
    /\ filter_idx > Len(filter_input)
    /\ pc' = "filter_done"
    /\ issued' = "none"
    /\ UNCHANGED <<quota_exceeded, detVars, syncVars, runVars, otherVars>>

(* the same VideoFilter is handed a list again: the earlier list, or that
   list without its first video *)
FilterAgain ==
    /\ pc = "filter_done"
    /\ filter_calls < MaxFilterCalls
    /\ pc' = "filter_enter"
    /\ issued' = "none"
    /\ \E n \in {1, 2} :
          filter_input' = SubSeq(filter_input, n, Len(filter_input))
    /\ UNCHANGED <<quota_exceeded, detVars, syncVars, runVars, vcVars, config,
                   channel_whitelist, filter_idx, filtered, stats, filter_now,
                   auxVars>>

FilterStep ==
    \/ FilterEnter
    \/ FilterLoop
    \/ FilterReturn
    \/ FilterAgain

(* ---- PlaylistManager.add_videos_to_playlist: the loop over the results --- *)
(* results.get(video_id, False) *)
AddedAlways(v) == TRUE
Added(v) == IF v \in DOMAIN results THEN results[v] ELSE FALSE

ManagerResultLoop ==
    /\ pc = "mark"
    /\ issued' = "none"
    /\ IF mark_idx > Len(filtered_videos)
       THEN /\ pc' = "done"
            /\ UNCHANGED <<mark_idx, detailed_results, cache, cache_file,
                           saved_marks>>
       ELSE LET v == filtered_videos[mark_idx]
            IN  /\ IF Added(v)
                   THEN \E outcome \in SaveOutcomes :
                           /\ MarkProcessed(v, outcome)
                           /\ saved_marks' = AfterMark(v, outcome)
                   ELSE UNCHANGED <<cache, cache_file, saved_marks>>
                /\ detailed_results' = Append(detailed_results,
                                          [video_id |-> v, added |-> Added(v)])
                /\ mark_idx' = mark_idx + 1
                /\ UNCHANGED pc
    /\ UNCHANGED <<quota_exceeded, dry_run, filtered_videos, snapshot_file,
                   page_count, fetched_ids, fetch_log, existing_video_ids,
                   new_video_ids, skipped_duplicates, results, ins_idx,
                   insert_log, detVars, runVars, vcVars, fltVars, cfgVars,
                   acctVars, resVars, subVars, qtVars, shVars, filter_calls>>

SyncStep ==
    \/ ManagerAddVideos
    \/ FetchExisting
    \/ PlaylistPageOk
    \/ PlaylistPageFail
    \/ InsertLoop
    \/ InsertCall
    \/ ManagerResultLoop

(* ----------------------------- QuotaTracker ---------------------------- *)
(* QUOTA_COSTS.get(method, 1): a read, an insert, a search, and a method the
   table does not list *)
Methods == {"videos.list", "playlistItems.insert", "search.list", "other"}
QuotaCostFlat(method) == 1
QuotaCost(method) ==
    CASE method = "videos.list" -> 1
      [] method = "playlistItems.insert" -> 50
      [] method = "search.list" -> 100
      [] OTHER -> 1

(* record_api_call appends one record (its timestamp and items_processed do
   not enter the totals) *)
CallRecord(method, count) ==
    [method |-> method, calls |-> count, cost_per_call |-> QuotaCost(method),
     total_cost |-> QuotaCost(method) * count]

(* the positions of a QuotaTracker: constructed, or the operation it
   completed last *)
TrackerPcs == {"tracker_new", "tracker_recorded", "tracker_reset"}

RecordApiCall ==
    /\ pc \in TrackerPcs
    /\ pc' = "tracker_recorded"
    /\ Len(api_calls) < MaxCalls
    /\ \E method \in Methods :
       \E count \in 0..MaxCount :
          api_calls' = Append(api_calls, CallRecord(method, count))
    /\ UNCHANGED <<quota_exceeded, issued, detVars, syncVars, runVars,
                   vcVars, fltVars, cfgVars, acctVars, resVars, subVars,
                   shVars, histVars>>

(* reset: self.api_calls.clear() *)
Reset ==
    /\ pc \in TrackerPcs
    /\ pc' = "tracker_reset"
    /\ api_calls' = <<>>
    /\ UNCHANGED <<quota_exceeded, issued, detVars, syncVars, runVars,
                   vcVars, fltVars, cfgVars, acctVars, resVars, subVars,
                   shVars, histVars>>

(* sum(call[field] for call in self.api_calls) *)
RECURSIVE SumField(_, _)
SumField(calls, field) ==
    IF calls = <<>> THEN 0
    ELSE Head(calls)[field] + SumField(Tail(calls), field)

(* get_session_usage()['total_quota_used'] *)
TotalQuotaUsed(calls) ==
    IF calls = <<>> THEN 0 ELSE SumField(calls, "total_cost")

QuotaStep ==
    \/ RecordApiCall
    \/ Reset

(* ---------------------------- configuration ---------------------------- *)
(* load_config: the defaults, and the defaults of the config.get calls of
   VideoFilter *)
DefaultConfig ==
    [min_duration_seconds |-> 60, max_duration_seconds |-> NoMax,
     channel_filter_mode |-> "none", channel_allowlist |-> {},
     channel_blocklist |-> {}, date_filter_mode |-> "lookback",
     lookback_hours |-> 24, date_filter_days |-> 7,
     date_filter_start |-> NoDate, date_filter_end |-> NoDate,
     keyword_filter_mode |-> "none", keyword_include |-> <<>>,
     keyword_exclude |-> <<>>, keyword_match_type |-> "any",
     keyword_case_sensitive |-> FALSE,
     keyword_search_description |-> FALSE, skip_live_content |-> TRUE]

(* date_filter_days not given (None) *)
NoDays == 0

(* ConfigSchema._migrate_legacy_whitelist and env_loader's
   _migrate_legacy_channel_filter: a legacy whitelist becomes the allowlist
   when no channel setting of the new kind is given *)
Migrated(raw) ==
    IF /\ raw.config.channel_filter_mode = "none"
       /\ raw.config.channel_allowlist = {}
       /\ raw.config.channel_blocklist = {}
       /\ raw.channel_whitelist # {}
    THEN [raw.config EXCEPT !.channel_filter_mode = "allowlist",
                            !.channel_allowlist = raw.channel_whitelist]
    ELSE raw.config

(* ConfigSchema._validate_channel_lists raises ValueError *)
ChannelListsInvalid(c) ==
    \/ c.channel_allowlist \cap c.channel_blocklist # {}
    \/ c.channel_filter_mode = "allowlist" /\ c.channel_blocklist # {}
    \/ c.channel_filter_mode = "blocklist" /\ c.channel_allowlist # {}

(* ConfigSchema._validate_numeric_fields raises ValueError *)
NumericFieldsInvalid(c) ==
    \/ c.min_duration_seconds \notin 0..86400
    \/ c.max_duration_seconds # NoMax /\ c.max_duration_seconds \notin 1..86400
    \/ c.lookback_hours \notin 1..168
    \/ /\ c.max_duration_seconds # NoMax
       /\ c.max_duration_seconds < c.min_duration_seconds

(* ConfigSchema._validate_date_filters raises ValueError *)
DateFiltersInvalid(c) ==
    \/ c.date_filter_days # NoDays /\ c.date_filter_days \notin 1..365
    \/ /\ c.date_filter_start # NoDate /\ c.date_filter_end # NoDate
       /\ c.date_filter_end < c.date_filter_start
    \/ c.date_filter_mode = "days" /\ c.date_filter_days = NoDays
    \/ /\ c.date_filter_mode = "date_range"
       /\ (c.date_filter_start = NoDate \/ c.date_filter_end = NoDate)

(* ConfigSchema._validate_keyword_filters raises ValueError *)
KeywordFiltersInvalid(c) ==
    \/ c.keyword_filter_mode = "include" /\ c.keyword_include = <<>>
    \/ c.keyword_filter_mode = "exclude" /\ c.keyword_exclude = <<>>
    \/ /\ c.keyword_filter_mode = "both"
       /\ (c.keyword_include = <<>> \/ c.keyword_exclude = <<>>)

(* ConfigSchema.validate_config raises ValueError *)
ConfigInvalid(raw) ==
    LET c == Migrated(raw)
    IN  \/ ChannelListsInvalid(c)
        \/ NumericFieldsInvalid(c)
        \/ DateFiltersInvalid(c)
        \/ KeywordFiltersInvalid(c)

(* a caller hands the settings to ConfigSchema.validate_config *)
ValidateConfig ==
    /\ pc = "validate_config"
    /\ issued' = "none"
    /\ IF ConfigInvalid(raw_config)
       THEN pc' = "config_error" /\ UNCHANGED config
       ELSE pc' = "config_valid" /\ config' = Migrated(raw_config)
    /\ UNCHANGED <<quota_exceeded, detVars, syncVars, runVars, vcVars,
                   channel_whitelist, filter_input, filter_idx, filtered,
                   stats, filter_now, auxVars>>

(* load_config builds the dict from a fixed list of keys: the duration
   minimum, the lookback, the live switch and the channel settings; the
   date and keyword settings and the duration maximum are not among them, so
   VideoFilter reads their defaults. main hands config["channel_whitelist"]
   on to filter_videos. Nothing is validated. *)
LoadedConfig(raw) ==
    LET c == Migrated(raw)
    IN  [DefaultConfig EXCEPT
            !.min_duration_seconds = c.min_duration_seconds,
            !.lookback_hours = c.lookback_hours,
            !.skip_live_content = c.skip_live_content,
            !.channel_filter_mode = c.channel_filter_mode,
            !.channel_allowlist = c.channel_allowlist,
            !.channel_blocklist = c.channel_blocklist]

LoadConfig ==
    /\ pc = "load_config"
    /\ pc' = "resolve"
    /\ issued' = "none"
    /\ config' = LoadedConfig(raw_config)
    /\ channel_whitelist' = raw_config.channel_whitelist
    /\ UNCHANGED <<quota_exceeded, detVars, syncVars, runVars, vcVars,
                   filter_input, filter_idx, filtered, stats, filter_now,
                   auxVars>>

ConfigStep ==
    \/ ValidateConfig
    \/ LoadConfig

(* --------------------- main: resolve the playlist ---------------------- *)
(* PlaylistManager.get_or_create_playlist: `if not resolved_id: raise
   SystemExit(1)`, which main re-raises; otherwise main goes on to
   sync_subscription_videos_to_playlist *)
AfterResolveAlways(id) == "subs"
AfterResolve(id) == IF id = "None" THEN "aborted" ELSE "subs"

(* YouTubeClient.get_or_create_playlist with an ID: playlists.list verifies
   it; every failure returns None and PlaylistManager raises SystemExit *)
VerifyPlaylist ==
    /\ pc = "resolve"
    /\ playlist_id_given
    /\ issued' = "playlists.list"
    /\ \E outcome \in {"found", "missing", "quota", "error"} :
          /\ quota_exceeded' = (quota_exceeded \/ outcome = "quota")
          /\ resolved_id' = IF outcome = "found" THEN "PL" ELSE "None"
          /\ pc' = AfterResolve(resolved_id')
    /\ UNCHANGED <<detVars, syncVars, runVars, vcVars, fltVars, cfgVars,
                   acctVars, qtVars, shVars, histVars, subVars, exit_code>>

(* YouTubeClient.get_or_create_playlist without an ID: playlists.insert *)
CreatePlaylist ==
    /\ pc = "resolve"
    /\ ~playlist_id_given
    /\ issued' = "playlists.insert"
    /\ \E outcome \in {"ok", "quota", "error"} :
          /\ quota_exceeded' = (quota_exceeded \/ outcome = "quota")
          /\ resolved_id' = IF outcome = "ok" THEN "PL" ELSE "None"
          /\ pc' = AfterResolve(resolved_id')
    /\ UNCHANGED <<detVars, syncVars, runVars, vcVars, fltVars, cfgVars,
                   acctVars, qtVars, shVars, histVars, subVars, exit_code>>

(* ---------- YouTubeClient.get_recent_uploads_from_subscriptions --------- *)
subscription_limit == 1000
(* main has not ended *)
NoExit == -1
(* the function has not been called *)
NotCalled == "not called"
(* next_page_token = None *)
NoToken == 0
max_results == 50

(* the video in place j of the uploads page of channel c *)
VideoId(c, j) == c * (MaxPerChannel + 1) + j

(* sync_subscription_videos_to_playlist returns [] *)
NothingToSync ==
    /\ pc' = "done"
    /\ detailed_results' = <<>>

(* subscriptions.list answered 200 with a page of n channels, n drawn from
   sizes, and a nextPageToken drawn from tokens (NoToken: none); sub_pages
   counts the requests up to MaxPages *)
SubscriptionsPage(sizes, tokens) ==
    /\ pc = "subs"
    /\ issued' = "subscriptions.list"
    /\ sub_pages' = IF sub_pages < MaxPages THEN sub_pages + 1 ELSE sub_pages
    /\ \E n \in sizes :
       \E token \in tokens :
          LET subs == Ids(Len(subscriptions) + n)
          IN  /\ subscriptions' = subs
              /\ next_page_token' = token
              /\ IF token # NoToken /\ ~(Len(subs) > subscription_limit)
                 THEN UNCHANGED <<pc, ch_idx, detailed_results>>
                 ELSE IF subs = <<>>
                 THEN NothingToSync /\ UNCHANGED ch_idx
                 ELSE /\ ch_idx' = 1
                      /\ pc' = "channel"
                      /\ UNCHANGED detailed_results
    /\ UNCHANGED <<quota_exceeded, detVars, playlist_id_given, playlist_items,
                   videos, dry_run, filtered_videos, snapshot_file, page_count,
                   fetched_ids, fetch_log, existing_video_ids, new_video_ids,
                   skipped_duplicates, results, ins_idx, insert_log, mark_idx,
                   cache, cache_file, uploads_playlist_id,
                   vcVars, fltVars, cfgVars, acctVars, qtVars, shVars,
                   histVars, resVars>>

(* a remote with at most MaxChannels channels on at most MaxPages pages *)
SubscriptionsPageOk ==
    SubscriptionsPage(0..(MaxChannels - Len(subscriptions)),
                      {NoToken} \cup {t \in {sub_pages + 1} : t < MaxPages})

(* a remote of any behaviour: pages that are empty or full, each with or
   without a token *)
SubscriptionsPageAny ==
    SubscriptionsPage({0, max_results}, {NoToken, 1, 2})

(* subscriptions.list failed: _get_all_subscriptions returns [] *)
SubscriptionsPageFail ==
    /\ pc = "subs"
    /\ issued' = "subscriptions.list"
    /\ sub_pages' = sub_pages + 1
    /\ \E quota \in BOOLEAN :
          quota_exceeded' = (quota_exceeded \/ quota)
    /\ NothingToSync
    /\ UNCHANGED <<detVars, playlist_id_given, subscriptions, ch_idx,
                   playlist_items, videos, dry_run, filtered_videos,
                   snapshot_file, page_count, fetched_ids, fetch_log,
                   existing_video_ids, new_video_ids, skipped_duplicates,
                   results, ins_idx, insert_log, mark_idx, cache, cache_file,
                   otherVars>>

(* head of `for subscription in subscriptions`; after the last channel
   get_recent_uploads_from_subscriptions returns videos and its locals end *)
ChannelLoop ==
    /\ pc = "channel"
    /\ issued' = "none"
    /\ IF ch_idx > Len(subscriptions)
       THEN /\ pc' = "filter"
            /\ subscriptions' = <<>>
            /\ sub_pages' = 0
            /\ ch_idx' = 1
            /\ uploads_playlist_id' = NotCalled
       ELSE /\ pc' = "channels_list"
            /\ UNCHANGED <<subscriptions, sub_pages, ch_idx,
                           uploads_playlist_id>>
    /\ UNCHANGED <<quota_exceeded, detVars, syncVars, playlist_id_given,
                   playlist_items, videos, next_page_token,
                   vcVars, fltVars, cfgVars, acctVars, qtVars, shVars,
                   histVars, resVars>>

NextChannel ==
    /\ ch_idx' = ch_idx + 1
    /\ pc' = "channel"

(* `if not uploads_playlist_id: continue` *)
SkipChannelNever(id) == FALSE
SkipChannel(id) == id = "None"

(* _get_uploads_playlist_id: channels.list; None when the answer has no
   item and on every failure, the quota signal setting the flag *)
ChannelsList ==
    /\ pc = "channels_list"
    /\ issued' = "channels.list"
    /\ \E outcome \in {"ok", "empty", "quota", "error"} :
          /\ quota_exceeded' = (quota_exceeded \/ outcome = "quota")
          /\ uploads_playlist_id' = IF outcome = "ok" THEN "UU" ELSE "None"
          /\ IF SkipChannel(uploads_playlist_id')
             THEN NextChannel
             ELSE pc' = "items_list" /\ UNCHANGED ch_idx
    /\ UNCHANGED <<detVars, syncVars, playlist_id_given, subscriptions,
                   sub_pages, playlist_items, videos, next_page_token,
                   vcVars, fltVars, cfgVars, acctVars, qtVars, shVars,
                   histVars, resVars>>

(* _get_playlist_items answered 200; with items, _get_videos_details is
   called with their video IDs *)
UploadsPageOk ==
    /\ pc = "items_list"
    /\ issued' = "playlistItems.list"
    /\ \E n \in 0..Min(MaxPerChannel, MaxRunVideos - Len(videos)) :
          LET items == [j \in 1..n |-> VideoId(subscriptions[ch_idx], j)]
          IN  /\ playlist_items' = items
              /\ IF items = <<>>
                 THEN NextChannel /\ UNCHANGED <<video_ids, caller>>
                 ELSE /\ video_ids' = items
                      /\ caller' = "channel"
                      /\ pc' = "det_enter"
                      /\ UNCHANGED ch_idx
    /\ UNCHANGED <<quota_exceeded, unique_video_ids, i, attempt, details,
                   failed_batches, quota_used, quota_saved, batch_log, syncVars,
                   playlist_id_given, subscriptions, sub_pages, videos,
                   otherVars>>

(* _get_playlist_items failed: it returns [] *)
UploadsPageFail ==
    /\ pc = "items_list"
    /\ issued' = "playlistItems.list"
    /\ \E quota \in BOOLEAN :
          quota_exceeded' = (quota_exceeded \/ quota)
    /\ playlist_items' = <<>>
    /\ NextChannel
    /\ UNCHANGED <<detVars, syncVars, playlist_id_given, subscriptions,
                   sub_pages, videos,
                   otherVars>>

(* _get_recent_videos_from_uploads_playlist, after _get_videos_details: the
   items published after the cutoff that have details, in page order; the
   locals of both functions end here *)
(* `if video_id not in video_details: continue` *)
HasDetailsAlways(v) == TRUE
HasDetails(v) == v \in details

Combine ==
    /\ pc = "combine"
    /\ issued' = "none"
    /\ \E recent \in SUBSET Range(playlist_items) :
          videos' = videos \o SelectSeq(playlist_items,
                        LAMBDA v : v \in recent /\ HasDetails(v))
    /\ NextChannel
    /\ playlist_items' = <<>>
    /\ video_ids' = <<>>
    /\ unique_video_ids' = <<>>
    /\ i' = 0
    /\ attempt' = 0
    /\ details' = {}
    /\ failed_batches' = 0
    /\ quota_used' = 0
    /\ quota_saved' = 0
    /\ batch_log' = <<>>
    /\ caller' = "none"
    /\ UNCHANGED <<quota_exceeded, syncVars, playlist_id_given,
                   subscriptions, sub_pages,
                   otherVars>>

(* sync_subscription_videos_to_playlist, steps 2 and 3: filter_videos keeps
   a subsequence of the videos, none of them already processed *)
FilterVideos ==
    /\ pc = "filter"
    /\ issued' = "none"
    /\ \E keep \in SUBSET Range(videos) :
          LET accepted == SelectSeq(videos,
                              LAMBDA v : v \in keep /\ ~IsProcessed(v))
          IN  /\ filtered_videos' = accepted
              /\ videos' = <<>>
              /\ IF accepted = <<>>
                 THEN NothingToSync
                 ELSE pc' = "add_videos" /\ UNCHANGED detailed_results
    /\ UNCHANGED <<quota_exceeded, detVars, playlist_id_given, subscriptions,
                   sub_pages, ch_idx, playlist_items, dry_run, snapshot_file,
                   page_count, fetched_ids, fetch_log, existing_video_ids,
                   new_video_ids, skipped_duplicates, results, ins_idx,
                   insert_log, mark_idx, cache, cache_file,
                   otherVars>>

(* main, after sync_subscription_videos_to_playlist returned: the summary
   and the exit status *)
Successful(video_results) ==
    Len(SelectSeq(video_results, LAMBDA v : v.added))

ExitCodeZero(video_results, dry) == 0
ExitCode(video_results, dry) ==
    IF ~dry /\ Successful(video_results) < Len(video_results) THEN 1 ELSE 0

Summary ==
    /\ pc = "done"
    /\ pc' = "exited"
    /\ issued' = "none"
    /\ exit_code' = ExitCode(detailed_results, dry_run)
    /\ UNCHANGED <<quota_exceeded, detVars, syncVars, runVars, vcVars, fltVars,
                   cfgVars, acctVars, qtVars, shVars, histVars,
                   subVars, resolved_id>>

RunStep ==
    \/ Summary
    \/ VerifyPlaylist
    \/ CreatePlaylist
    \/ SubscriptionsPageOk
    \/ SubscriptionsPageFail
    \/ ChannelLoop
    \/ ChannelsList
    \/ UploadsPageOk
    \/ UploadsPageFail
    \/ Combine
    \/ FilterVideos

(* ---- successive runs of main on one processed_videos.json: each run
   constructs a PlaylistManager (a new YouTubeClient, a VideoCache loaded
   from the file), fetches, filters and syncs ---- *)
(* the videos on the feeds of the subscribed channels *)
Feed == <<1, 2>>

(* get_recent_uploads_from_subscriptions of one run that is not a dry run:
   the feeds carry the same videos in every run *)
FetchVideos ==
    /\ pc = "vc_ready"
    /\ pc' = "filter"
    /\ issued' = "none"
    /\ videos' = Feed
    /\ UNCHANGED <<quota_exceeded, detVars, dry_run, filtered_videos, snapshot_file,
                   page_count, fetched_ids, fetch_log, existing_video_ids,
                   new_video_ids, skipped_duplicates, results, ins_idx,
                   insert_log, mark_idx, detailed_results, cache, cache_file,
                   playlist_id_given, subscriptions, sub_pages, ch_idx,
                   playlist_items, otherVars>>

(* the membership snapshot file as the next run finds it: as it was left
   when no time has passed, past its TTL otherwise *)
Aged(f, days) ==
    IF f.exists /\ days > 0
    THEN [f EXCEPT !.age = cache_ttl_hours + 1,
                   !.fetched_age = cache_ttl_hours + 1]
    ELSE f

(* the process has ended; a later run starts a whole number of days later:
   nothing but the two files remains *)
NextRunStarts ==
    /\ pc = "done"
    /\ instance < MaxInstances
    /\ pc' = "vc_new"
    /\ issued' = "none"
    /\ quota_exceeded' = FALSE
    /\ instance' = instance + 1
    /\ \E d \in Elapsed :
          /\ now' = Instant(now.day + d, now.us)
          /\ snapshot_file' = Aged(snapshot_file, d)
    /\ cache' = <<>>
    /\ dry_run' = FALSE
    /\ filtered_videos' = <<>>
    /\ page_count' = 0
    /\ fetched_ids' = {}
    /\ fetch_log' = NoFetch
    /\ existing_video_ids' = {}
    /\ new_video_ids' = <<>>
    /\ skipped_duplicates' = <<>>
    /\ results' = <<>>
    /\ ins_idx' = 1
    /\ insert_log' = <<>>
    /\ mark_idx' = 1
    /\ detailed_results' = <<>>
    /\ UNCHANGED <<detVars, runVars, cache_file, last_mark, fltVars, auxVars>>

RunsStep ==
    \/ LoadCache
    \/ FetchVideos
    \/ FilterVideos
    \/ NextRunStarts

(* ------------- specification: _get_videos_details alone ---------------- *)

RunIdle ==
    /\ playlist_id_given = TRUE
    /\ subscriptions = <<>>
    /\ sub_pages = 0
    /\ ch_idx = 1
    /\ playlist_items = <<>>
    /\ videos = <<>>

(* the day the first VideoCache instance is constructed *)
FirstDay == ttl_days + 1

(* a VideoCache constructed on an absent file, nothing marked yet *)
CacheIdle ==
    /\ now = Instant(FirstDay, 0)
    /\ instance = 1
    /\ last_mark = NoMark

(* no setting given: every key has its default *)
NoSettings == [config |-> DefaultConfig, channel_whitelist |-> {}]
AuxIdle ==
    /\ raw_config = NoSettings
    /\ title_exists = FALSE
    /\ resolved_id = NotCalled
    /\ exit_code = NoExit
    /\ next_page_token = NoToken
    /\ uploads_playlist_id = NotCalled
    /\ api_calls = <<>>
    /\ SharedIdle

(* a VideoFilter that has not been called *)
FilterIdle ==
    /\ config = DefaultConfig
    /\ channel_whitelist = {}
    /\ filter_input = <<>>
    /\ filter_idx = 1
    /\ filtered = <<>>
    /\ stats = InitStats
    /\ filter_now = 0

SyncIdle ==
    /\ page_count = 0
    /\ fetched_ids = {}
    /\ fetch_log = NoFetch
    /\ existing_video_ids = {}
    /\ new_video_ids = <<>>
    /\ skipped_duplicates = <<>>
    /\ results = <<>>
    /\ ins_idx = 1
    /\ insert_log = <<>>
    /\ mark_idx = 1
    /\ detailed_results = <<>>

(* 1..n, preceded by repeats of n and followed by repeats of 1 *)
DetailInputs ==
    {<<>>} \cup
    {Copies(p, n) \o Ids(n) \o Copies(s, 1) :
        n \in 1..MaxIds, p \in 0..MaxDups, s \in 0..MaxDups}

InitDetails ==
    /\ pc = "det_enter"
    /\ quota_exceeded \in BOOLEAN
    /\ issued = "none"
    /\ video_ids \in DetailInputs
    /\ unique_video_ids = <<>>
    /\ i = 0
    /\ attempt = 0
    /\ details = {}
    /\ failed_batches = 0
    /\ quota_used = 0
    /\ quota_saved = 0
    /\ batch_log = <<>>
    /\ caller = "none"
    /\ SyncIdle
    /\ RunIdle
    /\ dry_run = FALSE
    /\ filtered_videos = <<>>
    /\ snapshot_file = NoSnapshot
    /\ cache = <<>>
    /\ cache_file = NoCacheFile
    /\ CacheIdle
    /\ FilterIdle
    /\ AuxIdle

NextDetails == DetailsStep

SpecDetails == InitDetails /\ [][NextDetails]_vars

(* ------ specification: PlaylistManager.add_videos_to_playlist alone ------ *)
(* The snapshot file the call may find: none, or one whose ages in hours lie
   on either side of the TTL. The file is written after the fetched_at it
   records is taken, and may be rewritten, copied or restored later, so it is
   never older than its fetched_at; an unreadable file has no content. *)
SnapshotAges == {cache_ttl_hours - 1, cache_ttl_hours, cache_ttl_hours + 1}
Snapshots(ids) ==
    {NoSnapshot} \cup
    {f \in [exists : {TRUE}, readable : {TRUE}, video_ids : SUBSET ids,
            age : SnapshotAges, fetched_age : SnapshotAges] :
        f.age <= f.fetched_age} \cup
    {[exists |-> TRUE, readable |-> FALSE, video_ids |-> {}, age |-> a,
      fetched_age |-> a] : a \in SnapshotAges}

InitSync ==
    /\ pc = "add_videos"
    /\ quota_exceeded \in BOOLEAN
    /\ issued = "none"
    /\ DetIdle
    /\ SyncIdle
    /\ RunIdle
    /\ dry_run \in BOOLEAN
    /\ filtered_videos \in {Ids(n) : n \in 0..MaxVideos}
    /\ snapshot_file \in Snapshots(Range(filtered_videos))
    /\ cache = <<>>
    /\ cache_file = NoCacheFile
    /\ CacheIdle
    /\ FilterIdle
    /\ AuxIdle

NextSync == SyncStep

SpecSync == InitSync /\ [][NextSync]_vars

(* ------------------- specification: VideoCache alone -------------------- *)
(* the added_at strings a file may hold: written by mark_processed at ages
   on either side of the TTL when the first instance loads it, without or
   with a fraction of a second, or missing *)
StoredAges == {ttl_days - 1, ttl_days, ttl_days + 1}
StoredStrings ==
    {Iso(Instant(FirstDay - a, u)) : a \in StoredAges, u \in {0, MaxMicros}}
    \cup {<<>>}

CacheFiles ==
    {NoCacheFile}
    \cup {BrokenFile(sh) : sh \in {"unparsable", "not_a_map", "entry_not_a_map",
                                   "added_at_not_a_string"}}
    \cup UNION {{MapFile(m) : m \in [S -> StoredStrings]} :
                   S \in SUBSET (1..MaxCacheIds)}

InitCache ==
    /\ pc = "vc_new"
    /\ quota_exceeded = FALSE
    /\ issued = "none"
    /\ DetIdle
    /\ SyncIdle
    /\ RunIdle
    /\ dry_run = FALSE
    /\ filtered_videos = <<>>
    /\ snapshot_file = NoSnapshot
    /\ cache = <<>>
    /\ cache_file \in CacheFiles
    /\ now \in {Instant(FirstDay, u) : u \in {0, MaxMicros}}
    /\ instance = 1
    /\ last_mark = NoMark
    /\ FilterIdle
    /\ AuxIdle

NextCache == CacheStep

SpecCache == InitCache /\ [][NextCache]_vars

(* ------------- specification: two VideoCache instances, one file -------- *)
(* both instances have been constructed on a file that is absent or holds
   entries marked the day before *)
SharedFiles ==
    {NoCacheFile}
    \cup {MapFile([v \in S |-> Iso(Instant(FirstDay - 1, 0))]) :
             S \in SUBSET (1..MaxCacheIds) \ {{}}}

InitShared ==
    /\ pc = "shared"
    /\ quota_exceeded = FALSE
    /\ issued = "none"
    /\ DetIdle
    /\ SyncIdle
    /\ RunIdle
    /\ dry_run = FALSE
    /\ filtered_videos = <<>>
    /\ snapshot_file = NoSnapshot
    /\ CacheIdle
    /\ cache_file \in SharedFiles
    /\ cache = KeptEntries(cache_file)
    /\ other_cache = KeptEntries(cache_file)
    /\ last_write = NoWrite
    /\ saved_marks = <<>>
    /\ filter_calls = 0
    /\ FilterIdle
    /\ raw_config = NoSettings
    /\ title_exists = FALSE
    /\ resolved_id = NotCalled
    /\ exit_code = NoExit
    /\ next_page_token = NoToken
    /\ uploads_playlist_id = NotCalled
    /\ api_calls = <<>>

NextShared == SharedStep

SpecShared == InitShared /\ [][NextShared]_vars

(* ------------------- specification: VideoFilter alone ------------------- *)
foo == <<"f", "o", "o">>
bar == <<"b", "a", "r">>
FOO == <<"F", "O", "O">>
foo_bar == <<"f", "o", "o", " ", "b", "a", "r">>
other == <<"x">>

(* datetime.utcnow() during the call: 16:00:00 of day 41 *)
NowHours == 1000
Now == NowHours * SecondsPerHour

Published(at) == [kind |-> "ok", at |-> at]

(* a recent video of an unprocessed ID that every default check passes *)
DefaultVideo ==
    [video_id |-> 2, duration_seconds |-> 120, channel_id |-> "c1",
     published_at |-> Published(Now - SecondsPerHour), title |-> foo,
     description |-> <<>>, live_broadcast |-> "none"]

SeqsUpTo(S, n) == UNION {[1..k -> S] : k \in 0..n}

(* every check configured; each field of a video takes a value that passes
   and a value that fails *)
AllowlistConfig ==
    [DefaultConfig EXCEPT !.channel_filter_mode = "allowlist",
                          !.channel_allowlist = {"c1"},
                          !.keyword_filter_mode = "include",
                          !.keyword_include = <<foo>>]
BlocklistConfig ==
    [DefaultConfig EXCEPT !.min_duration_seconds = 0,
                          !.max_duration_seconds = 600,
                          !.channel_filter_mode = "blocklist",
                          !.channel_blocklist = {"c2"},
                          !.date_filter_mode = "days",
                          !.date_filter_days = 1,
                          !.keyword_filter_mode = "exclude",
                          !.keyword_exclude = <<other>>]
LegacyConfig ==
    [DefaultConfig EXCEPT !.keyword_filter_mode = "include",
                          !.keyword_include = <<foo>>]
OrderVideos ==
    [video_id : {1, 2}, duration_seconds : {30, 120, 601},
     channel_id : {"c1", "c2"},
     published_at : {Published(Now - SecondsPerHour), Published(Now - 100 * SecondsPerHour)},
     title : {foo, other}, description : {<<>>},
     live_broadcast : {"none", "live"}]
OrderInputs ==
    [config : {AllowlistConfig, BlocklistConfig}, whitelist : {{}},
     videos : SeqsUpTo(OrderVideos, MaxOrderLen)]
    \cup [config : {LegacyConfig}, whitelist : {{"c1"}},
          videos : SeqsUpTo(OrderVideos, MaxOrderLen)]

(* duration ranges: a minimum, and no maximum or one not below the minimum *)
DurationConfigs ==
    {[DefaultConfig EXCEPT !.min_duration_seconds = lo,
                           !.max_duration_seconds = hi] :
        lo \in {0, 60}, hi \in {NoMax, 60, 600}}
DurationVideos ==
    {[DefaultVideo EXCEPT !.duration_seconds = d] :
        d \in {0, 30, 59, 60, 61, 120, 600, 601}}
DurationInputs ==
    [config : DurationConfigs, whitelist : {{}},
     videos : SeqsUpTo(DurationVideos, MaxFilterLen)]

(* keyword settings: the lists a mode needs are not empty *)
KeywordConfigs ==
    {[DefaultConfig EXCEPT !.keyword_filter_mode = c.mode,
                           !.keyword_include = c.include,
                           !.keyword_exclude = c.exclude,
                           !.keyword_match_type = c.match_type,
                           !.keyword_case_sensitive = c.case_sensitive,
                           !.keyword_search_description = c.description] :
        c \in {x \in [mode : {"include", "exclude", "both"},
                       include : {<<>>, <<foo>>, <<foo, bar>>, <<FOO>>},
                       exclude : {<<>>, <<bar>>, <<other, FOO>>},
                       match_type : {"any", "all"},
                       case_sensitive : BOOLEAN, description : BOOLEAN] :
                  /\ (x.include # <<>>) = (x.mode \in {"include", "both"})
                  /\ (x.exclude # <<>>) = (x.mode \in {"exclude", "both"})
                  /\ x.mode = "exclude" => x.match_type = "any"}}
KeywordVideos ==
    {[DefaultVideo EXCEPT !.title = t, !.description = d] :
        t \in {foo, foo_bar, FOO, other}, d \in {<<>>, bar}}
KeywordInputs ==
    [config : KeywordConfigs, whitelist : {{}},
     videos : SeqsUpTo(KeywordVideos, MaxFilterLen)]

(* channel settings as filter_videos accepts them: each mode with an empty
   or a one-element allowlist and blocklist, without and with the legacy
   whitelist argument *)
ChannelConfigs ==
    {[DefaultConfig EXCEPT !.channel_filter_mode = mode,
                           !.channel_allowlist = allow,
                           !.channel_blocklist = block] :
        mode \in {"none", "allowlist", "blocklist"},
        allow \in {{}, {"c1"}}, block \in {{}, {"c2"}}}
ChannelVideos ==
    {[DefaultVideo EXCEPT !.channel_id = c] : c \in {"c1", "c2"}}
ChannelInputs ==
    [config : ChannelConfigs, whitelist : {{}, {"c1"}},
     videos : SeqsUpTo(ChannelVideos, MaxFilterLen)]

(* date settings: the default lookback, the last 1 or 7 days, a range of
   one or two days; published_at missing, unparsable, and on both sides of
   every cutoff to the second *)
DateConfigs ==
    {DefaultConfig}
    \cup {[DefaultConfig EXCEPT !.date_filter_mode = "days",
                                !.date_filter_days = d] : d \in {1, 7}}
    \cup {[DefaultConfig EXCEPT !.date_filter_mode = "date_range",
                                !.date_filter_start = r[1],
                                !.date_filter_end = r[2]] :
             r \in {<<40, 40>>, <<39, 40>>}}
DateVideos ==
    {[DefaultVideo EXCEPT !.published_at = p] :
        p \in {[kind |-> "missing", at |-> 0],
               [kind |-> "unparsable", at |-> 0]}
              \cup {Published(t) :
                       t \in {Now, Now - 24 * SecondsPerHour,
                              Now - 24 * SecondsPerHour - 1,
                              41 * SecondsPerDay, 41 * SecondsPerDay - 1,
                              40 * SecondsPerDay, 40 * SecondsPerDay - 1,
                              39 * SecondsPerDay, 39 * SecondsPerDay - 1,
                              34 * SecondsPerDay, 34 * SecondsPerDay - 1}}}
DateInputs ==
    [config : DateConfigs, whitelist : {{}},
     videos : SeqsUpTo(DateVideos, MaxFilterLen)]

FilterInputs ==
    OrderInputs \cup DurationInputs \cup KeywordInputs \cup ChannelInputs
    \cup DateInputs

InitFilter ==
    /\ pc = "filter_enter"
    /\ quota_exceeded = FALSE
    /\ issued = "none"
    /\ DetIdle
    /\ SyncIdle
    /\ RunIdle
    /\ dry_run = FALSE
    /\ filtered_videos = <<>>
    /\ snapshot_file = NoSnapshot
    /\ CacheIdle
    /\ cache = [v \in {1} |-> Iso(now)]
    /\ cache_file = MapFile(cache)
    /\ \E input \in FilterInputs :
          /\ config = input.config
          /\ channel_whitelist = input.whitelist
          /\ filter_input = input.videos
    /\ filter_idx = 1
    /\ filtered = <<>>
    /\ stats = InitStats
    /\ filter_now = Now
    /\ AuxIdle

NextFilter == FilterStep

SpecFilter == InitFilter /\ [][NextFilter]_vars

(* ------------- specification: the configuration and the start ---------- *)
(* the settings a user may give: every mode with its list or parameter
   given or not *)
RawConfigs ==
    {[DefaultConfig EXCEPT !.channel_filter_mode = c.channel,
                           !.channel_allowlist = c.allow,
                           !.channel_blocklist = c.block,
                           !.date_filter_mode = c.date,
                           !.date_filter_days = c.days,
                           !.date_filter_start = c.range[1],
                           !.date_filter_end = c.range[2],
                           !.keyword_filter_mode = c.keyword,
                           !.keyword_include = c.include,
                           !.keyword_exclude = c.exclude] :
        c \in [channel : {"none", "allowlist", "blocklist"},
               allow : {{}, {"c1"}}, block : {{}, {"c2"}},
               date : {"lookback", "days", "date_range"},
               days : {NoDays, 7},
               range : {<<NoDate, NoDate>>, <<10, NoDate>>, <<10, 20>>},
               keyword : {"none", "include", "exclude", "both"},
               include : {<<>>, <<foo>>}, exclude : {<<>>, <<bar>>}]}

InitConfig ==
    /\ pc \in {"validate_config", "load_config"}
    /\ quota_exceeded = FALSE
    /\ issued = "none"
    /\ DetIdle
    /\ SyncIdle
    /\ playlist_id_given \in BOOLEAN
    /\ subscriptions = <<>>
    /\ sub_pages = 0
    /\ ch_idx = 1
    /\ playlist_items = <<>>
    /\ videos = <<>>
    /\ dry_run = FALSE
    /\ filtered_videos = <<>>
    /\ snapshot_file = NoSnapshot
    /\ cache = <<>>
    /\ cache_file = NoCacheFile
    /\ CacheIdle
    /\ FilterIdle
    /\ raw_config \in [config : RawConfigs, channel_whitelist : {{}, {"c1"}}]
    /\ title_exists \in BOOLEAN
    /\ resolved_id = NotCalled
    /\ exit_code = NoExit
    /\ next_page_token = NoToken
    /\ uploads_playlist_id = NotCalled
    /\ api_calls = <<>>
    /\ SharedIdle

NextConfig == ConfigStep \/ VerifyPlaylist \/ CreatePlaylist

SpecConfig == InitConfig /\ [][NextConfig]_vars

(* -------------------- specification: QuotaTracker ---------------------- *)
InitQuota ==
    /\ pc = "tracker_new"
    /\ quota_exceeded = FALSE
    /\ issued = "none"
    /\ DetIdle
    /\ SyncIdle
    /\ RunIdle
    /\ dry_run = FALSE
    /\ filtered_videos = <<>>
    /\ snapshot_file = NoSnapshot
    /\ cache = <<>>
    /\ cache_file = NoCacheFile
    /\ CacheIdle
    /\ FilterIdle
    /\ AuxIdle

NextQuota == QuotaStep

SpecQuota == InitQuota /\ [][NextQuota]_vars

(* -------------- specification: a refetch of the membership ------------- *)
InitFetch ==
    /\ pc = "fetch_page"
    /\ quota_exceeded = FALSE
    /\ issued = "none"
    /\ DetIdle
    /\ SyncIdle
    /\ RunIdle
    /\ dry_run \in BOOLEAN
    /\ filtered_videos = Ids(1)
    /\ snapshot_file \in Snapshots(Range(filtered_videos))
    /\ ~(SnapshotFresh(snapshot_file) /\ SnapshotReadable(snapshot_file))
    /\ cache = <<>>
    /\ cache_file = NoCacheFile
    /\ CacheIdle
    /\ FilterIdle
    /\ AuxIdle

NextFetch == PlaylistPageAny \/ PlaylistPageFail

SpecFetch == InitFetch /\ [][NextFetch]_vars

(* --------------- specification: _get_all_subscriptions ----------------- *)
InitSubs ==
    /\ pc = "subs"
    /\ quota_exceeded = FALSE
    /\ issued = "none"
    /\ DetIdle
    /\ SyncIdle
    /\ playlist_id_given \in BOOLEAN
    /\ subscriptions = <<>>
    /\ sub_pages = 0
    /\ ch_idx = 1
    /\ playlist_items = <<>>
    /\ videos = <<>>
    /\ dry_run \in BOOLEAN
    /\ filtered_videos = <<>>
    /\ snapshot_file = NoSnapshot
    /\ cache = <<>>
    /\ cache_file = NoCacheFile
    /\ CacheIdle
    /\ FilterIdle
    /\ raw_config = NoSettings
    /\ title_exists = FALSE
    /\ resolved_id = "PL"
    /\ exit_code = NoExit
    /\ next_page_token = NoToken
    /\ uploads_playlist_id = NotCalled
    /\ api_calls = <<>>
    /\ SharedIdle

NextSubs == SubscriptionsPageAny \/ SubscriptionsPageFail

(* the while loop keeps running as long as it can *)
SpecSubs == InitSubs /\ [][NextSubs]_vars /\ WF_vars(NextSubs)

(* ------------------- specification: a whole sync run -------------------- *)
(* the snapshot file a run may find: none, or one the program wrote in an
   earlier run, fresh or stale *)
RunSnapshots ==
    {f \in Snapshots({VideoId(1, 1)}) :
        f.exists => (/\ f.readable
                     /\ f.age = f.fetched_age
                     /\ f.age # cache_ttl_hours)}

InitRun ==
    /\ pc = "resolve"
    /\ quota_exceeded = FALSE
    /\ issued = "none"
    /\ DetIdle
    /\ SyncIdle
    /\ playlist_id_given \in BOOLEAN
    /\ subscriptions = <<>>
    /\ sub_pages = 0
    /\ ch_idx = 1
    /\ playlist_items = <<>>
    /\ videos = <<>>
    /\ dry_run \in BOOLEAN
    /\ filtered_videos = <<>>
    /\ snapshot_file \in RunSnapshots
    /\ cache = <<>>
    /\ cache_file = NoCacheFile
    /\ CacheIdle
    /\ FilterIdle
    /\ AuxIdle

NextRun == RunStep \/ DetailsStep \/ SyncStep

SpecRun == InitRun /\ [][NextRun]_vars

(* ---------- specification: successive runs on one cache file ----------- *)
InitRuns ==
    /\ pc = "vc_new"
    /\ quota_exceeded = FALSE
    /\ issued = "none"
    /\ DetIdle
    /\ SyncIdle
    /\ RunIdle
    /\ dry_run = FALSE
    /\ filtered_videos = <<>>
    /\ snapshot_file = NoSnapshot
    /\ cache = <<>>
    /\ cache_file = NoCacheFile
    /\ CacheIdle
    /\ FilterIdle
    /\ AuxIdle

NextRuns == RunsStep \/ SyncStep

SpecRuns == InitRuns /\ [][NextRuns]_vars

(* ======================================================================= *)
(*                               Properties                                *)
(* ======================================================================= *)
MutatingCalls == {"playlistItems.insert", "playlists.insert"}
InsertedIds == {insert_log[k][1] : k \in DOMAIN insert_log}
InsertSucceeded(v) ==
    \E k \in DOMAIN insert_log :
        insert_log[k][1] = v /\ insert_log[k][2] \in {"ok", "conflict"}
SyncReturned == pc = "done" /\ ~dry_run /\ filtered_videos # <<>>

(* C1: once the quota flag is set it stays set, and no mutating remote call
   (playlistItems.insert, playlists.insert) is issued from then on. *)
C1_QuotaFlagSticky ==
    [][quota_exceeded =>
          quota_exceeded' /\ issued' \notin MutatingCalls]_vars

(* the flag was set while fetching, a later read call succeeded (the
   membership snapshot was refetched and written) and the pending inserts
   were skipped *)
C1_Witness ==
    /\ quota_exceeded
    /\ pc = "mark"
    /\ new_video_ids # <<>>
    /\ insert_log = <<>>
    /\ snapshot_file.exists /\ snapshot_file.age = 0

(* C2: once the quota flag is set, no further remote call of any kind is
   issued in the run. *)
C2_NoCallAfterQuota ==
    [][quota_exceeded => issued' = "none"]_vars

(* C3: when the insert of the next video is attempted, every video added so
   far (inserted, conflict, or already present) is in the processed-video
   cache file. *)
C3_MarkedBeforeNextInsert ==
    pc = "insert_call" =>
        \A v \in DOMAIN results :
            results[v] => v \in DOMAIN cache_file.entries

(* C4: inserts are issued only for candidates that are not in the membership
   snapshot, one per such candidate in candidate order; a candidate in the
   snapshot is reported added without an insert, any other with the outcome
   of its insert. *)
C4_DedupBeforeInsert ==
    LET cand_new == SelectSeq(filtered_videos,
                              LAMBDA v : v \notin existing_video_ids)
    IN  /\ Len(insert_log) <= Len(cand_new)
        /\ \A k \in DOMAIN insert_log :
              /\ insert_log[k][1] \notin existing_video_ids
              /\ insert_log[k][1] = cand_new[k]
        /\ SyncReturned =>
              /\ Len(detailed_results) = Len(filtered_videos)
              /\ ~quota_exceeded => Len(insert_log) = Len(cand_new)
              /\ \A k \in DOMAIN filtered_videos :
                    LET v == filtered_videos[k]
                        r == detailed_results[k]
                    IN  /\ r.video_id = v
                        /\ v \in existing_video_ids => r.added
                        /\ v \notin existing_video_ids =>
                              (r.added <=> InsertSucceeded(v))

(* playlist {X}, candidates [X, Y]: one insert, for Y *)
C4_Witness ==
    /\ SyncReturned
    /\ Len(filtered_videos) = 2
    /\ existing_video_ids = {filtered_videos[1]}
    /\ Len(insert_log) = 1
    /\ insert_log[1][1] = filtered_videos[2]
    /\ detailed_results[1].added

(* C5: an insert that signals quota exhaustion is the last insert issued;
   the failing video and the videos not attempted are reported not added,
   the videos inserted before it and the videos already present are reported
   added. *)
C5_QuotaHaltsInserts ==
    \A k \in DOMAIN insert_log :
        insert_log[k][2] = "quota" =>
            /\ k = Len(insert_log)
            /\ SyncReturned =>
                  /\ Len(detailed_results) = Len(filtered_videos)
                  /\ \A m \in DOMAIN detailed_results :
                        LET r == detailed_results[m]
                        IN  /\ r.video_id = insert_log[k][1] => ~r.added
                            /\ (/\ r.video_id \notin existing_video_ids
                                /\ r.video_id \notin InsertedIds) => ~r.added
                            /\ (\E j \in 1..(k - 1) :
                                   /\ insert_log[j][1] = r.video_id
                                   /\ insert_log[j][2] \in {"ok", "conflict"})
                                  => r.added
                            /\ r.video_id \in existing_video_ids => r.added

(* one video inserted, the next one hits the quota, one more is never
   attempted *)
C5_Witness ==
    /\ SyncReturned
    /\ Len(insert_log) = 2
    /\ insert_log[1][2] = "ok"
    /\ insert_log[2][2] = "quota"
    /\ Len(new_video_ids) > 2

(* C6: an insert answered 409 conflict counts as added, leaves the quota flag
   clear, lets the loop go on to the next candidate, and the video is marked
   processed. *)
C6_ConflictIsSuccess ==
    \A k \in DOMAIN insert_log :
        insert_log[k][2] = "conflict" =>
            /\ results[insert_log[k][1]] = TRUE
            /\ k = Len(insert_log) =>
                  /\ ~quota_exceeded
                  /\ pc \in {"mark", "done"} => k = Len(new_video_ids)
            /\ SyncReturned =>
                  /\ IsProcessed(insert_log[k][1])
                  /\ \E m \in DOMAIN detailed_results :
                        /\ detailed_results[m].video_id = insert_log[k][1]
                        /\ detailed_results[m].added

(* a conflict on the first insert, followed by another insert *)
C6_Witness ==
    /\ SyncReturned
    /\ Len(insert_log) >= 2
    /\ insert_log[1][2] = "conflict"
    /\ IsProcessed(insert_log[1][1])
    /\ insert_log[1][1] \in DOMAIN cache_file.entries

(* C7: in dry_run mode no insert is issued and every candidate is reported
   added, in input order. *)
C7_DryRunNoMutation ==
    dry_run =>
        /\ insert_log = <<>>
        /\ issued \notin MutatingCalls
        /\ pc \notin {"fetch_existing", "fetch_page", "insert_loop",
                      "insert_call", "mark"}
        /\ pc = "done" =>
              detailed_results =
                  [k \in 1..Len(filtered_videos) |->
                      [video_id |-> filtered_videos[k], added |-> TRUE]]

C7_Witness ==
    /\ dry_run
    /\ pc = "done"
    /\ Len(filtered_videos) >= 2
    /\ Len(detailed_results) = Len(filtered_videos)

TotalCalls == SumLens(batch_log)
DistinctIds == Cardinality(Range(video_ids))
NoCallFailed ==
    /\ ~quota_exceeded
    /\ \A b \in DOMAIN batch_log : \A k \in DOMAIN batch_log[b] :
          batch_log[b][k].outcome = "ok"
BatchDone(b) == pc = "det_done" \/ i >= b * batch_size
BatchIds(b) == Range(BatchAt(unique_video_ids, (b - 1) * batch_size))

(* C8 as stated: _get_videos_details issues exactly ceil(u/50) videos.list
   calls, u the number of distinct IDs of the input. *)
C8_ExactCallCount ==
    pc = "det_done" => TotalCalls = CeilDiv(DistinctIds, batch_size)

(* C8, amended: exactly ceil(u/50) calls when the quota flag is clear and no
   call fails; never more than two calls per batch of the distinct IDs, and
   fewer than ceil(u/50) only with the quota flag set. Repeated IDs do not
   count. *)
C8_CallCountWhenNoFailure ==
    pc = "det_done" =>
        /\ NoCallFailed => TotalCalls = CeilDiv(DistinctIds, batch_size)
        /\ TotalCalls <= (max_retries + 1) * CeilDiv(DistinctIds, batch_size)
        /\ ~quota_exceeded => TotalCalls >= CeilDiv(DistinctIds, batch_size)

(* the input is longer than a whole number of batches only through its
   repeated IDs *)
C8_Witness ==
    /\ pc = "det_done"
    /\ NoCallFailed
    /\ CeilDiv(Len(video_ids), batch_size) > CeilDiv(DistinctIds, batch_size)
    /\ TotalCalls = CeilDiv(DistinctIds, batch_size)
    /\ TotalCalls > 1

(* C9: a batch whose first call fails with a non-quota error gets exactly one
   more call; if that one fails the same way the batch adds nothing to the
   result and the next batch is still called; no batch is called more than
   twice. *)
C9_RetryOnce ==
    \A b \in DOMAIN batch_log :
        LET L == batch_log[b]
        IN  /\ Len(L) <= 2
            /\ Len(L) >= 2 => L[1].outcome = "transient"
            /\ (BatchDone(b) /\ Len(L) >= 1 /\ L[1].outcome = "transient")
                  => Len(L) = 2
            /\ (Len(L) = 2 /\ L[2].outcome = "transient") =>
                  /\ BatchDone(b)
                  /\ details \cap BatchIds(b) = {}
                  /\ (pc = "det_done" /\ b < Len(batch_log))
                        => Len(batch_log[b + 1]) >= 1

(* a batch failed twice and the batch after it delivered details *)
C9_Witness ==
    /\ pc = "det_done"
    /\ \E b \in DOMAIN batch_log :
          /\ b < Len(batch_log)
          /\ Len(batch_log[b]) = 2
          /\ batch_log[b][2].outcome = "transient"
          /\ Last(batch_log[b + 1]).outcome = "ok"
          /\ details \cap BatchIds(b + 1) # {}

(* C10: a videos.list call that signals quota exhaustion is the last call
   of the lookup (no retry, no later batch), and the lookup returns exactly
   the details of the batches that succeeded before it. *)
C10_QuotaStopsBatches ==
    \A b \in DOMAIN batch_log : \A k \in DOMAIN batch_log[b] :
        batch_log[b][k].outcome = "quota" =>
            /\ k = Len(batch_log[b])
            /\ \A b2 \in DOMAIN batch_log : b2 > b => batch_log[b2] = <<>>
            /\ pc = "det_done" =>
                  details = UNION {UNION {batch_log[b2][k2].items :
                                             k2 \in DOMAIN batch_log[b2]} :
                                      b2 \in 1..(b - 1)}

(* quota exhaustion on a middle batch, after a batch that delivered *)
C10_Witness ==
    /\ pc = "det_done"
    /\ details # {}
    /\ \E b \in DOMAIN batch_log :
          /\ 1 < b /\ b < Len(batch_log)
          /\ batch_log[b] # <<>>
          /\ Last(batch_log[b]).outcome = "quota"

(* C11 as stated: a snapshot whose recorded fetched_at is 12 hours old or
   more is never returned; fetch_existing_playlist_items goes on to the
   remote fetch. *)
C11_StaleByFetchedAt ==
    [][(/\ pc = "fetch_existing"
        /\ snapshot_file.exists
        /\ snapshot_file.fetched_age >= cache_ttl_hours)
          => (pc' = "fetch_page" /\ fetch_log'.how # "cached")]_vars

(* C12: with a readable snapshot recorded less than 12 hours ago,
   fetch_existing_playlist_items returns exactly the stored IDs and issues
   no remote call. *)
C12_FreshSnapshotNoCall ==
    [][(/\ pc = "fetch_existing"
        /\ snapshot_file.exists
        /\ snapshot_file.readable
        /\ snapshot_file.fetched_age < cache_ttl_hours)
          => (/\ issued' = "none"
              /\ pc' # "fetch_page"
              /\ fetch_log' = [how |-> "cached", pages |-> 0,
                               had_ids |-> FALSE]
              /\ existing_video_ids' = snapshot_file.video_ids
              /\ snapshot_file' = snapshot_file)]_vars

(* a stored, non-empty set was returned from the file *)
C12_Witness ==
    /\ fetch_log.how = "cached"
    /\ snapshot_file.fetched_age < cache_ttl_hours
    /\ existing_video_ids # {}
    /\ existing_video_ids = snapshot_file.video_ids
    /\ skipped_duplicates # <<>>

(* C13: when a page request of the refetch fails (quota exhaustion or any
   other error), fetch_existing_playlist_items returns the empty set, so
   every candidate counts as new. *)
C13_FailureReturnsEmpty ==
    fetch_log.how = "failed" =>
        /\ existing_video_ids = {}
        /\ skipped_duplicates = <<>>
        /\ new_video_ids = filtered_videos

(* the second page failed after the first had delivered IDs, with a stale
   non-empty snapshot on disk *)
C13_Witness ==
    /\ fetch_log.how = "failed"
    /\ fetch_log.pages >= 2
    /\ fetch_log.had_ids
    /\ snapshot_file.exists /\ snapshot_file.video_ids # {}
    /\ existing_video_ids = {}

(* the instant an added_at string denotes (datetime.fromisoformat), and the
   order of instants in time *)
Parse(str) == Instant(str[1], IF Len(str) > 1 THEN str[2] ELSE 0)
Before(t1, t2) ==
    t1.day < t2.day \/ (t1.day = t2.day /\ t1.us < t2.us)
CutoffInstant == Instant(now.day - ttl_days, now.us)

(* C14: after a load, every entry of the persisted map whose added_at is
   older than now - ttl_days is absent from the cache and every entry
   younger than that is present, unchanged. *)
C14_GarbageCollection ==
    [][(pc = "vc_new" /\ cache_file.shape = "map") =>
          \A v \in DOMAIN cache_file.entries :
              LET e == cache_file.entries[v]
              IN  e # <<>> =>
                    /\ Before(Parse(e), CutoffInstant) => v \notin DOMAIN cache'
                    /\ Before(CutoffInstant, Parse(e)) =>
                          (v \in DOMAIN cache' /\ cache'[v] = e)]_vars

(* a load dropped the older of two entries and kept the younger one (the
   rewrite of the file failed, so the file still shows both) *)
C14_Witness ==
    /\ pc = "vc_ready"
    /\ last_mark = NoMark
    /\ cache_file.shape = "map"
    /\ DOMAIN cache_file.entries = {1, 2}
    /\ DOMAIN cache = {1}
    /\ Before(CutoffInstant, Parse(cache[1]))
    /\ cache_file.entries[2] # <<>>
    /\ Before(Parse(cache_file.entries[2]), CutoffInstant)

(* C15 as stated: after mark_processed(id), is_processed(id) is true in the
   same instance and in every instance loaded from the file afterwards. *)
C15_RoundTrip ==
    (pc = "vc_ready" /\ last_mark.id # 0) => IsProcessed(last_mark.id)

(* C15, amended: true in the same instance; true in an instance loaded
   afterwards if the write of that mark_processed succeeded, no later write
   of the file failed half-way, and less than ttl_days have passed. *)
C15_RoundTripWhenSaved ==
    (/\ pc = "vc_ready"
     /\ last_mark.id # 0
     /\ \/ last_mark.instance = instance
        \/ last_mark.saved /\ Before(CutoffInstant, last_mark.at))
        => IsProcessed(last_mark.id)

(* a later instance, loaded days after the mark, finds the video *)
C15_Witness ==
    /\ pc = "vc_ready"
    /\ last_mark.id # 0
    /\ last_mark.saved
    /\ instance > last_mark.instance
    /\ now.day > last_mark.at.day
    /\ IsProcessed(last_mark.id)

(* C16 as stated: loading a malformed cache file never raises; the cache
   starts empty. *)
C16_MalformedLoadsEmpty ==
    [][(pc = "vc_new" /\ cache_file.shape \notin {"absent", "map"})
          => (pc' = "vc_ready" /\ cache' = <<>>)]_vars

(* the checks of the filter pipeline in their order, each with the counters
   of its rejections *)
PredicateOrder ==
    <<{"already_processed"}, {"too_short", "too_long"},
      {"not_in_allowlist", "in_blocklist"}, {"outside_date_range"},
      {"keyword_filtered_include", "keyword_filtered_exclude"},
      {"live_content_skipped"}>>
RejectionCounters == UNION Range(PredicateOrder)
Fails(p, video) == PredicateOrder[p] \cap FailedReasons(video) # {}
FirstFailing(video) ==
    CHOOSE p \in DOMAIN PredicateOrder :
        Fails(p, video) /\ \A q \in 1..(p - 1) : ~Fails(q, video)
FilterLoopAt == pc = "filter_loop" /\ filter_idx <= Len(filter_input)

(* C17: the handling of a video increments exactly one rejection counter,
   one of the first check in the order already-processed, duration, channel,
   date, keyword, live that rejects the video; no counter of a later check
   moves. (not_whitelisted is the legacy name of not_in_allowlist and moves
   with it.) *)
C17_FirstRejectionCounted ==
    [][FilterLoopAt =>
          LET video == filter_input[filter_idx]
              changed == {n \in RejectionCounters : stats'[n] # stats[n]}
          IN  /\ stats'["not_whitelisted"] - stats["not_whitelisted"]
                    = stats'["not_in_allowlist"] - stats["not_in_allowlist"]
              /\ IF FailedReasons(video) = {}
                 THEN changed = {}
                 ELSE /\ \E n \in PredicateOrder[FirstFailing(video)] :
                            changed = {n} /\ stats'[n] = stats[n] + 1
                      /\ stats'["passed_filters"] = stats["passed_filters"]
                      /\ filtered' = filtered]_vars

(* an unprocessed video that is too short, of a channel outside the
   allowlist, old, without the keyword and live: only too_short counted it *)
C17_Witness ==
    /\ pc = "filter_done"
    /\ Len(filter_input) = 1
    /\ FailedReasons(filter_input[1]) =
          {"too_short", "not_in_allowlist", "outside_date_range",
           "keyword_filtered_include", "live_content_skipped"}
    /\ stats = [InitStats EXCEPT !["total"] = 1, !["too_short"] = 1]

(* C18: filter_videos returns the accepted videos of the input, each once
   per occurrence and in input order, and as many as passed_filters counts. *)
C18_AcceptedSubsequence ==
    pc = "filter_done" =>
        /\ filtered = SelectSeq(filter_input,
                                LAMBDA video : FailedReasons(video) = {})
        /\ Len(filtered) = stats["passed_filters"]

(* the first video of the input was rejected and all the later ones were
   returned, in their order *)
C18_Witness ==
    /\ pc = "filter_done"
    /\ Len(filter_input) = MaxFilterLen
    /\ FailedReasons(filter_input[1]) # {}
    /\ filtered = SubSeq(filter_input, 2, MaxFilterLen)
    /\ stats["passed_filters"] = MaxFilterLen - 1

(* C19: when no other check rejects the video, too_short counts it exactly
   when duration_seconds < min_duration_seconds and too_long exactly when a
   maximum is set and duration_seconds > max_duration_seconds; with minimum
   60 and no maximum, [A(30s), B(120s)] gives [B], too_short 1, passed 1. *)
C19_DurationBounds ==
    /\ [][(/\ FilterLoopAt
           /\ FailedReasons(filter_input[filter_idx])
                 \subseteq {"too_short", "too_long"})
             => LET d == filter_input[filter_idx].duration_seconds
                    short == d < config.min_duration_seconds
                    long == /\ config.max_duration_seconds # NoMax
                            /\ d > config.max_duration_seconds
                IN  /\ stats'["too_short"]
                          = stats["too_short"] + (IF short THEN 1 ELSE 0)
                    /\ stats'["too_long"]
                          = stats["too_long"] + (IF long THEN 1 ELSE 0)
                    /\ (filtered' = Append(filtered,
                                           filter_input[filter_idx]))
                          = (~short /\ ~long)]_vars
    /\ [](( /\ pc = "filter_done"
            /\ config.min_duration_seconds = 60
            /\ config.max_duration_seconds = NoMax
            /\ Len(filter_input) = 2
            /\ filter_input[1] = [DefaultVideo EXCEPT !.duration_seconds = 30]
            /\ filter_input[2] = DefaultVideo)
              => /\ filtered = <<filter_input[2]>>
                 /\ stats["too_short"] = 1
                 /\ stats["passed_filters"] = 1)

(* the example has run: A(30s) was rejected as too short, B(120s) returned *)
C19_Witness ==
    /\ pc = "filter_done"
    /\ config = DefaultConfig
    /\ filter_input = <<[DefaultVideo EXCEPT !.duration_seconds = 30],
                        DefaultVideo>>
    /\ filtered = <<DefaultVideo>>
    /\ stats["too_short"] = 1
    /\ stats["passed_filters"] = 1

(* keyword occurs in text as a contiguous part *)
Contains(text, keyword) ==
    \/ keyword = <<>>
    \/ \E a \in 1..Len(text) : \E b \in a..Len(text) :
          SubSeq(text, a, b) = keyword
Folded(str) == IF config.keyword_case_sensitive THEN str ELSE ToLower(str)
KeywordMatches(keyword, video) ==
    Contains(SearchText(video), Folded(keyword))
IncludeMatches(video) ==
    IF config.keyword_match_type = "any"
    THEN \E keyword \in Range(config.keyword_include) :
            KeywordMatches(keyword, video)
    ELSE \A keyword \in Range(config.keyword_include) :
            KeywordMatches(keyword, video)
ExcludeMatches(video) ==
    \E keyword \in Range(config.keyword_exclude) :
        KeywordMatches(keyword, video)

(* C20: when no other check rejects the video, the keyword filter rejects it
   exactly when the mode is include or both and the include keywords do not
   match (any: at least one occurs in the search text, all: every one
   occurs), or the mode is exclude or both and an exclude keyword occurs;
   with match_type all and include [foo, bar], a title with only foo is
   rejected and a title with both is accepted. *)
C20_KeywordFilter ==
    /\ [][(/\ FilterLoopAt
           /\ config.keyword_filter_mode # "none"
           /\ FailedReasons(filter_input[filter_idx])
                 \subseteq {"keyword_filtered_include",
                            "keyword_filtered_exclude"})
             => LET video == filter_input[filter_idx]
                    mode == config.keyword_filter_mode
                    rejected ==
                       \/ mode \in {"include", "both"} /\ ~IncludeMatches(video)
                       \/ mode \in {"exclude", "both"} /\ ExcludeMatches(video)
                IN  /\ (filtered' = filtered) = rejected
                    /\ (stats'["keyword_filtered_include"]
                          + stats'["keyword_filtered_exclude"]
                        = stats["keyword_filtered_include"]
                          + stats["keyword_filtered_exclude"] + 1) = rejected
                    /\ (filtered' = Append(filtered, video)) = ~rejected]_vars
    /\ [](( /\ pc = "filter_done"
            /\ config.keyword_filter_mode = "include"
            /\ config.keyword_match_type = "all"
            /\ config.keyword_include = <<foo, bar>>
            /\ Len(filter_input) = 2
            /\ filter_input[1].title = foo
            /\ filter_input[1].description = <<>>
            /\ filter_input[2].title = foo_bar)
              => /\ filtered = <<filter_input[2]>>
                 /\ stats["keyword_filtered_include"] = 1
                 /\ stats["passed_filters"] = 1)

(* the example has run, with upper-case keywords folded: the title foo was
   rejected, the title "foo bar" returned *)
C20_Witness ==
    /\ pc = "filter_done"
    /\ config.keyword_filter_mode = "include"
    /\ config.keyword_match_type = "all"
    /\ config.keyword_include = <<foo, bar>>
    /\ ~config.keyword_search_description
    /\ Len(filter_input) = 2
    /\ filter_input[1].title = foo
    /\ filter_input[2].title = foo_bar
    /\ filtered = <<filter_input[2]>>
    /\ stats["keyword_filtered_include"] = 1

(* C21 as stated: when no other check rejects the video, the channel check
   rejects it exactly when the configured mode is allowlist and channel_id is
   not in the configured allow-set, or the mode is blocklist and channel_id is
   in the block-set; in mode none it never rejects, whatever the sets and the
   legacy channel_whitelist argument are. *)
C21_ChannelFilter ==
    [][(/\ FilterLoopAt
        /\ FailedReasons(filter_input[filter_idx])
              \subseteq {"not_in_allowlist", "in_blocklist"})
          => LET video == filter_input[filter_idx]
                 mode == config.channel_filter_mode
                 rejected ==
                    \/ /\ mode = "allowlist"
                       /\ video.channel_id \notin config.channel_allowlist
                    \/ /\ mode = "blocklist"
                       /\ video.channel_id \in config.channel_blocklist
             IN  (filtered' = filtered) = rejected]_vars

(* a filter mode is set while the list or parameter it needs is empty or
   missing *)
Incomplete(c) ==
    \/ c.channel_filter_mode = "allowlist" /\ c.channel_allowlist = {}
    \/ c.channel_filter_mode = "blocklist" /\ c.channel_blocklist = {}
    \/ /\ c.keyword_filter_mode \in {"include", "both"}
       /\ c.keyword_include = <<>>
    \/ /\ c.keyword_filter_mode \in {"exclude", "both"}
       /\ c.keyword_exclude = <<>>
    \/ c.date_filter_mode = "days" /\ c.date_filter_days = NoDays
    \/ /\ c.date_filter_mode = "date_range"
       /\ (c.date_filter_start = NoDate \/ c.date_filter_end = NoDate)

(* C22 as stated: settings with a filter mode whose list or parameter is
   empty or missing are rejected as a configuration error: validation does
   not accept them and the run does not get past loading them, so no remote
   call is issued. *)
C22_IncompleteConfigRejected ==
    Incomplete(raw_config.config) =>
        /\ pc \in {"validate_config", "load_config", "config_error"}
        /\ issued = "none"

(* C23 as stated: a playlist is created only when no explicit ID was given
   and none of the user's playlists has exactly the configured title. *)
C23_CreateOnlyWithoutTitle ==
    issued = "playlists.insert" => ~playlist_id_given /\ ~title_exists

(* C24: once resolving the playlist has failed the run is over and nothing
   was processed: the last request is still the one of the resolution, no
   subscription page, feed, detail batch or membership page was fetched, no
   insert was attempted and the processed-cache was not written. *)
C24_FailedResolutionEndsRun ==
    resolved_id = "None" =>
        /\ pc = "aborted"
        /\ issued \in {"playlists.list", "playlists.insert"}
        /\ sub_pages = 0 /\ subscriptions = <<>> /\ videos = <<>>
        /\ batch_log = <<>> /\ fetch_log = NoFetch /\ insert_log = <<>>
        /\ cache = <<>> /\ cache_file = NoCacheFile /\ last_mark = NoMark

C24_Witness ==
    /\ resolved_id = "None"
    /\ quota_exceeded
    /\ pc = "aborted"

(* C25 as stated: when a page of subscriptions.list is answered by the quota
   signal, the flag is set and the channels of the pages before it are what
   _get_all_subscriptions returns, so the run goes on to read their feeds;
   only with no channel collected is the result empty. *)
C25_QuotaKeepsEarlierPages ==
    [][(/\ pc = "subs"
        /\ issued' = "subscriptions.list"
        /\ ~quota_exceeded /\ quota_exceeded')
          => IF subscriptions = <<>>
             THEN pc' = "done"
             ELSE pc' = "channel" /\ subscriptions' = subscriptions]_vars

(* C26 as stated: the enumeration of the subscriptions terminates whatever
   the remote answers. *)
C26_EnumerationTerminates == <>(pc # "subs")

(* C27 as stated: a refetch of the membership makes at most page_limit page
   requests whatever tokens the remote returns, and a refetch that was not
   cut short by a failure has written the snapshot and returned the IDs it
   collected. *)
C27_AtMostHundredPages ==
    /\ fetch_log.pages <= page_limit
    /\ fetch_log.how = "fetched" =>
          /\ snapshot_file.exists
          /\ snapshot_file.video_ids = existing_video_ids

(* C28: when the lookup of a channel's uploads feed returns None, the loop
   goes on to the next channel: the request of that step is the lookup
   itself, no feed page and no detail batch is requested for the channel,
   the run is not ended, and the videos collected from the other channels
   stay in the result. *)
C28_MissingFeedSkipsChannel ==
    [][(pc = "channels_list" /\ uploads_playlist_id' = "None")
          => /\ pc' = "channel"
             /\ ch_idx' = ch_idx + 1
             /\ issued' = "channels.list"
             /\ videos' = videos
             /\ batch_log' = batch_log
             /\ playlist_items' = playlist_items]_vars

C28_Witness ==
    /\ uploads_playlist_id = "None"
    /\ pc = "channel"
    /\ ch_idx > Len(subscriptions)
    /\ videos # <<>>

(* C29: a run that is not a dry run ends with a non-zero status whenever a
   candidate of its result was reported added = false, and a run without
   candidates ends with status 0. *)
C29_ExitSignalsFailure ==
    pc = "exited" =>
        /\ (/\ ~dry_run
            /\ \E k \in DOMAIN detailed_results : ~detailed_results[k].added)
              => exit_code # 0
        /\ detailed_results = <<>> => exit_code = 0

C29_Witness ==
    /\ pc = "exited"
    /\ ~dry_run
    /\ \E k \in DOMAIN detailed_results : ~detailed_results[k].added
    /\ \E k \in DOMAIN detailed_results : detailed_results[k].added
    /\ exit_code = 1

(* the sum over the records of cost_per_call times the call count, with the
   cost the table gives the record's method *)
RECURSIVE CostOfCalls(_)
CostOfCalls(calls) ==
    IF calls = <<>> THEN 0
    ELSE (CASE Head(calls).method = "videos.list" -> 1
            [] Head(calls).method = "playlistItems.insert" -> 50
            [] Head(calls).method = "search.list" -> 100
            [] OTHER -> 1) * Head(calls).calls
         + CostOfCalls(Tail(calls))

(* C30: the reported total_quota_used is the sum over the records since the
   last reset of cost_per_call times the call count; no operation but reset
   lowers it, and reset lowers it to zero. *)
C30_QuotaTotalAdditive ==
    /\ [](TotalQuotaUsed(api_calls) = CostOfCalls(api_calls))
    /\ [][IF api_calls' = <<>>
          THEN TotalQuotaUsed(api_calls') = 0
          ELSE TotalQuotaUsed(api_calls') >= TotalQuotaUsed(api_calls)]_vars

C30_Witness ==
    /\ Len(api_calls) = MaxCalls
    /\ \E k \in DOMAIN api_calls :
          api_calls[k].method = "playlistItems.insert" /\ api_calls[k].calls = 2
    /\ \E k \in DOMAIN api_calls :
          api_calls[k].method = "other" /\ api_calls[k].calls = 1
    /\ TotalQuotaUsed(api_calls) > 100

(* C31: in the insert phase the attempts follow the order of the candidates
   that are not in the membership snapshot, one attempt each; an attempt that
   fails for another reason than quota makes its own video, and no video
   whose attempt succeeded, added = false, and the candidate after it is
   still attempted. *)
C31_FailedInsertIsolated ==
    pc \in {"insert_loop", "insert_call", "mark", "done"} =>
        /\ \A k \in DOMAIN insert_log :
              /\ k <= Len(new_video_ids)
              /\ insert_log[k][1] = new_video_ids[k]
              /\ \A j \in DOMAIN insert_log :
                    j # k => insert_log[j][1] # insert_log[k][1]
        /\ \A k \in DOMAIN insert_log :
              insert_log[k][2] = "error" =>
                 /\ ~Added(insert_log[k][1])
                 /\ \A j \in DOMAIN insert_log :
                       insert_log[j][2] \in {"ok", "conflict"}
                          => Added(insert_log[j][1])
                 /\ (pc \in {"mark", "done"} /\ k < Len(new_video_ids))
                       => Len(insert_log) > k

C31_Witness ==
    /\ pc = "done"
    /\ Len(insert_log) = 2
    /\ insert_log[1][2] = "error"
    /\ insert_log[2][2] = "ok"
    /\ Len(detailed_results) = 2
    /\ ~detailed_results[1].added
    /\ detailed_results[2].added

(* C32: when no other check rejects the video, the date filter accepts a
   video whose published_at is missing or cannot be parsed, and otherwise
   accepts it exactly when, in mode lookback, it was published at or after
   now - lookback_hours; in mode days, at or after 00:00:00 of the day that
   lies date_filter_days before now; in mode date_range, from 00:00:00 of the
   start date to 23:59:59 of the end date. *)
C32_DateFilter ==
    [][(/\ FilterLoopAt
        /\ FailedReasons(filter_input[filter_idx])
              \subseteq {"outside_date_range"})
          => LET video == filter_input[filter_idx]
                 at == video.published_at.at
                 mode == config.date_filter_mode
                 accepted ==
                    \/ video.published_at.kind \in {"missing", "unparsable"}
                    \/ /\ mode = "lookback"
                       /\ at + config.lookback_hours * 3600 >= filter_now
                    \/ /\ mode = "days"
                       /\ \E day \in 0..(filter_now \div 86400) :
                             /\ day * 86400
                                   <= filter_now - config.date_filter_days * 86400
                             /\ filter_now - config.date_filter_days * 86400
                                   < (day + 1) * 86400
                             /\ at >= day * 86400
                    \/ /\ mode = "date_range"
                       /\ at >= config.date_filter_start * 86400
                       /\ at < (config.date_filter_end + 1) * 86400
             IN  /\ (filtered' = Append(filtered, video)) = accepted
                 /\ (filtered' = filtered) = ~accepted
                 /\ stats'["outside_date_range"]
                       = stats["outside_date_range"]
                            + (IF accepted THEN 0 ELSE 1)]_vars

(* mode days with one day, at 16:00 of day 41: a video of 23:59:59 of day 39
   was rejected, a video of 00:00:00 of day 40 and one without a date were
   returned *)
C32_Witness ==
    /\ pc = "filter_done"
    /\ config.date_filter_mode = "days"
    /\ config.date_filter_days = 1
    /\ Len(filter_input) = MaxFilterLen
    /\ filter_input[1].published_at = Published(40 * SecondsPerDay - 1)
    /\ filter_input[2].published_at = Published(40 * SecondsPerDay)
    /\ filtered = SubSeq(filter_input, 2, MaxFilterLen)
    /\ stats["outside_date_range"] = 1

(* batches of the distinct IDs for which a videos.list call answered 200 *)
SucceededBatches ==
    Cardinality({b \in DOMAIN batch_log :
                    \E k \in DOMAIN batch_log[b] : batch_log[b][k].outcome = "ok"})

(* C33: the quota figure _get_videos_details reports as used is the number of
   batches whose videos.list call succeeded, and the saved figure is the
   number of distinct IDs minus that number, whatever the batch outcomes
   (success, success with every ID missing, transient failure, quota stop
   with batches left unissued). *)
C33_QuotaFiguresCountSuccesses ==
    pc = "det_done" =>
        /\ quota_used = SucceededBatches
        /\ quota_saved = DistinctIds - SucceededBatches

WriterMap == IF last_write.by = 1 THEN cache ELSE other_cache
OtherMap == IF last_write.by = 1 THEN other_cache ELSE cache

(* C34: two VideoCache instances open on one file, their mark_processed
   calls interleaving: a write replaces the whole file with the writer's own
   map, so the file equals the last writer's map, and an entry only the other
   instance holds (one it wrote after the last writer loaded) is not in the
   file. *)
C34_LastWriterWins ==
    (pc = "shared" /\ last_write.outcome = "saved") =>
        /\ cache_file = MapFile(WriterMap)
        /\ \A v \in DOMAIN OtherMap \ DOMAIN WriterMap :
              v \notin DOMAIN cache_file.entries

(* the first instance marked video 1 and its write reached the file; the
   second, loaded before that, then marked video 2: the file holds video 2
   alone *)
C34_Witness ==
    /\ pc = "shared"
    /\ last_write.by = 2 /\ last_write.id = 2 /\ last_write.outcome = "saved"
    /\ last_write.replaced = MapFile(cache)
    /\ DOMAIN cache = {1} /\ cache[1] = Iso(now)
    /\ DOMAIN other_cache = {2}
    /\ cache_file.shape = "map"
    /\ DOMAIN cache_file.entries = {2}

(* the video IDs the cache holds, in memory or in its file *)
MarkedIds == DOMAIN cache \cup DOMAIN cache_file.entries

(* C35: every video a sync writes to the processed-video cache is reported
   added=true in the sync's result; a video whose insert failed, or was not
   attempted because the loop had stopped, is not marked, in memory or in the
   file. *)
C35_OnlyAddedMarked ==
    pc \in {"mark", "done"} =>
        /\ \A v \in MarkedIds :
              \E k \in DOMAIN detailed_results :
                 /\ detailed_results[k].video_id = v
                 /\ detailed_results[k].added
        /\ \A k \in DOMAIN new_video_ids :
              (k > Len(insert_log) \/ insert_log[k][2] \in {"error", "quota"})
                 => new_video_ids[k] \notin MarkedIds
        /\ \A k \in DOMAIN detailed_results :
              ~detailed_results[k].added
                 => detailed_results[k].video_id \notin MarkedIds

(* three candidates: the first inserted, the second refused for quota, the
   third never attempted; the first alone is marked *)
C35_Witness ==
    /\ pc = "done"
    /\ Len(new_video_ids) = 3
    /\ Len(insert_log) = 2
    /\ insert_log[1][2] = "ok"
    /\ insert_log[2][2] = "quota"
    /\ DOMAIN cache = {new_video_ids[1]}
    /\ cache_file = MapFile(cache)

(* the run started less than ttl_days after the instant `at` *)
WithinTtl(at) == Before(CutoffInstant, at)
(* an earlier run marked v, the write reached the file, and this run started
   within the TTL of that mark *)
MarkedEarlier(v) ==
    /\ v \in DOMAIN saved_marks
    /\ saved_marks[v].instance < instance
    /\ WithinTtl(saved_marks[v].at)

(* C36 as stated: once a run has marked a video processed and the write
   succeeded, no later run started within ttl_days issues an insert call for
   that video. *)
C36_NoInsertAfterMark ==
    issued = "playlistItems.insert" => ~MarkedEarlier(Last(insert_log)[1])

(* C36, amended: the same, provided no later write of the cache file failed
   after truncating it; the video is rejected by the filter, so it is not
   among the candidates of the sync step. *)
C36_NoInsertAfterMarkKept ==
    \A v \in DOMAIN saved_marks :
        (MarkedEarlier(v) /\ ~saved_marks[v].lost) =>
            /\ pc \notin {"vc_new"} => IsProcessed(v)
            /\ v \notin Range(filtered_videos)
            /\ v \notin InsertedIds

(* the second run, started a day short of the TTL after the first marked
   video 1, inserts video 2 alone *)
C36_Witness ==
    /\ pc = "done"
    /\ instance = 2
    /\ MarkedEarlier(1)
    /\ ~saved_marks[1].lost
    /\ now.day = saved_marks[1].at.day + (ttl_days - 1)
    /\ filtered_videos = <<2>>
    /\ insert_log = <<<<2, "ok">>>>
    /\ DOMAIN cache = {1, 2}

(* C37: when a membership refetch fails, on its first page or on a later
   one, the snapshot file is left as it was. *)
C37_FailedRefetchKeepsSnapshot ==
    [][(pc = "fetch_page" /\ fetch_log'.how = "failed")
          => snapshot_file' = snapshot_file]_vars

(* a refetch over a stale snapshot failed on its second page, after IDs had
   been collected from the first: the file still holds the stale content *)
C37_Witness ==
    /\ fetch_log.how = "failed"
    /\ fetch_log.pages = 2
    /\ fetch_log.had_ids
    /\ snapshot_file.exists
    /\ snapshot_file.age = cache_ttl_hours + 1
    /\ snapshot_file.video_ids = {1}
    /\ existing_video_ids = {}

(* the nine rejection counters; not_whitelisted is the legacy name that
   moves with not_in_allowlist *)
NineCounters ==
    {"already_processed", "too_short", "too_long", "not_in_allowlist",
     "in_blocklist", "outside_date_range", "keyword_filtered_include",
     "keyword_filtered_exclude", "live_content_skipped"}
RECURSIVE SumStats(_)
SumStats(names) ==
    IF names = {} THEN 0
    ELSE LET n == CHOOSE x \in names : TRUE
         IN  stats[n] + SumStats(names \ {n})

(* C38: after every call of filter_videos, total equals passed_filters plus
   the sum of the nine rejection counters, total being the length of the
   list of that call: the counters start from zero in each call. *)
C38_CountersAddUp ==
    /\ pc = "filter_done" =>
          /\ stats["total"] = Len(filter_input)
          /\ stats["total"] = stats["passed_filters"] + SumStats(NineCounters)
          /\ stats["passed_filters"] = Len(filtered)
    /\ pc = "filter_loop" =>
          /\ stats["total"] = Len(filter_input)
          /\ stats["passed_filters"] + SumStats(NineCounters) = filter_idx - 1

(* the second call on one VideoFilter returned, with a video passed and a
   video rejected *)
C38_Witness ==
    /\ pc = "filter_done"
    /\ filter_calls = 2
    /\ stats["total"] = 2
    /\ stats["passed_filters"] = 1
    /\ SumStats(NineCounters) = 1

(* C39: a video of an uploads page for which videos.list returned no details
   is never a candidate, so it is neither inserted nor marked. Step by step:
   the combining step hands on no item without details; the collected videos
   gain nothing but the items it hands on; the candidates of the sync step
   are collected videos; inserts and marks are of candidates only. (Every
   video ID is on one channel's page, and every channel is visited once.) *)
C39_NoDetailsNoCandidate ==
    /\ [][pc = "combine" =>
             \A v \in Range(playlist_items) \ details : v \notin Range(videos')]_vars
    /\ [][Range(videos') \subseteq
             Range(videos) \cup
                (IF pc = "combine" THEN Range(playlist_items) \cap details
                 ELSE {})]_vars
    /\ [][Range(filtered_videos') \subseteq
             Range(filtered_videos) \cup Range(videos)]_vars
    /\ [](InsertedIds \cup MarkedIds \subseteq Range(filtered_videos))

(* _get_videos_details has returned to the combining step: of the two items
   of the channel's page, videos.list returned details for the second alone *)
C39_Witness ==
    /\ pc = "combine"
    /\ caller = "channel"
    /\ Len(playlist_items) = 2
    /\ details = {playlist_items[2]}
    /\ batch_log # <<>>

====
